---- MODULE Spec2Model ----
(***************************************************************************)
(* A state-machine model of the QKD simulator core: the BB84 orchestrator  *)
(* (bb84_protocol.py, quantum_states.py), Cascade reconciliation           *)
(* (reconciliation.py), the simulator facade with its per-user key cache   *)
(* (simulator.py), the attack detector (attack_models.py), the AES blob    *)
(* format (aes_integration.py) and secure messaging                        *)
(* (secure_messaging_service.py).                                          *)
(*                                                                         *)
(* Conventions.  Random draws are nondeterministic choices over the        *)
(* outcomes that have non-zero probability.  Real-valued parameters are    *)
(* scaled integers (the unit is named where the field is introduced).      *)
(* List positions that the code stores as data (matching indices, error    *)
(* positions) keep Python's 0-based values; TLA+ sequences are indexed     *)
(* from 1, so position p of a Python list is element p+1 of the sequence.  *)
(***************************************************************************)
EXTENDS Integers, Sequences, FiniteSets, TLC

VARIABLES
    \* ---- BB84Protocol.execute_protocol (bb84_protocol.py) ----
    cfg,                  \* constructor arguments and execute_protocol arguments
    pc,                   \* position inside execute_protocol
    bases,                \* BB84Sender.bases
    bit_values,           \* BB84Sender.bit_values
    transmitted_qubits,   \* the list handed from transmit_qubits to receive_qubits
    measurement_bases,    \* BB84Receiver.measurement_bases
    measurement_results,  \* BB84Receiver.measurement_results
    detection_results,    \* BB84Receiver.detection_results
    detection_info,       \* BB84Receiver.detection_info (the flag that decided)
    detector,             \* QuantumDetector mutable state
    protocol_phases,      \* BB84Protocol.protocol_phases
    bb84_result,          \* the returned BB84Result
    \* ---- CascadeProtocol.reconcile (reconciliation.py) ----
    cascade,              \* CascadeProtocol constructor arguments
    cascade_pc,           \* position inside reconcile
    key_sender,           \* reconcile argument
    key_receiver,         \* reconcile argument
    corrected_sender,     \* local corrected_sender
    corrected_receiver,   \* local corrected_receiver
    revealed_positions,   \* local revealed_positions (a set)
    error_positions,      \* local error_positions (a list)
    block_size,           \* local block_size
    round_num,            \* loop variable of reconcile
    rounds_completed,     \* CascadeProtocol.rounds_completed
    bits_revealed,        \* CascadeProtocol.bits_revealed
    cascade_result,       \* the returned ReconciliationResult
    \* ---- QKDAESIntegration (aes_integration.py) ----
    aes_mode,             \* QKDAESIntegration.aes_mode
    aes_pc,               \* which of encrypt_message / decrypt_message has run
    aes_message,          \* the message handed to encrypt_message (its UTF-8 bytes)
    aes_qkd_key,          \* the QKD bit list handed to both calls
    aes_result,           \* the AESDemoResult returned by encrypt_message
    aes_decrypted,        \* the outcome of the later decrypt_message call
    \* ---- QKDSimulator key cache and SecureMessagingService ----
    quantum_keys,         \* QKDSimulator.quantum_keys
    now,                  \* time.time(), in seconds since the simulator was built
    messages,             \* SecureMessagingService.messages
    message_counter,      \* SecureMessagingService.message_counter
    last_call,            \* the last call made on the two services and what it returned
    \* ---- QKDSimulator.run_simulation (simulator.py) ----
    sim_pc,               \* position inside run_simulation
    parameters,           \* the SimulationParameters of the call
    sim_bb84_result,      \* local bb84_result
    attack_detection,     \* the attack_detection of the returned SimulationResult
    \* ---- QuantumDetector.detect_photon called directly (quantum_states.py) ----
    det_clock,            \* the current_time of the next call, in microseconds
    det_call,             \* the last detect_photon call: arguments, detector before, outcome
    \* ---- QKDSimulator.run_parameter_sweep (simulator.py) ----
    simulation_history,   \* QKDSimulator.simulation_history
    sweep_pc,             \* position inside run_parameter_sweep
    base_parameters,      \* run_parameter_sweep argument
    sweep_parameters,     \* run_parameter_sweep argument: the (name, values) items in dict order
    param_combinations,   \* local param_combinations
    sweep_results,        \* local results
    history_at_call,      \* simulation_history when run_parameter_sweep was called
    last_construction,    \* outcome of the last SimulationParameters(...) call
    \* ---- the asynchronous simulation endpoint (main.py) ----
    background_tasks,     \* the job table: simulation_id -> entry
    loop_time,            \* the event loop's clock, in half seconds
    jobs                  \* the run_simulation_background coroutines, in submission order

bb84_vars == <<cfg, pc, bases, bit_values, transmitted_qubits, measurement_bases,
               measurement_results, detection_results, detection_info, detector,
               protocol_phases, bb84_result>>

cascade_vars == <<cascade, cascade_pc, key_sender, key_receiver, corrected_sender,
                  corrected_receiver, revealed_positions, error_positions, block_size,
                  round_num, rounds_completed, bits_revealed, cascade_result>>

aes_vars == <<aes_mode, aes_pc, aes_message, aes_qkd_key, aes_result, aes_decrypted>>

service_vars == <<quantum_keys, now, messages, message_counter, last_call>>

sim_vars == <<sim_pc, parameters, sim_bb84_result, attack_detection>>

detector_vars == <<det_clock, det_call>>

sweep_vars == <<simulation_history, sweep_pc, base_parameters, sweep_parameters,
                param_combinations, sweep_results, history_at_call, last_construction>>

jobs_vars == <<background_tasks, loop_time, jobs>>

vars == <<bb84_vars, cascade_vars, aes_vars, service_vars, sim_vars, detector_vars,
          sweep_vars, jobs_vars>>

\* what the steps of execute_protocol leave alone
bb84_frame == <<cascade_vars, aes_vars, service_vars, sim_vars, detector_vars, sweep_vars,
    jobs_vars>>

\* what the steps of CascadeProtocol.reconcile leave alone
cascade_frame == <<bb84_vars, aes_vars, service_vars, sim_vars, detector_vars, sweep_vars,
    jobs_vars>>

\* what the calls on a QKDAESIntegration leave alone
aes_frame == <<bb84_vars, cascade_vars, service_vars, sim_vars, detector_vars, sweep_vars,
    jobs_vars>>

\* what the calls on the key cache and the messaging service leave alone
service_frame == <<bb84_vars, cascade_vars, aes_vars, sim_vars, detector_vars, sweep_vars,
    jobs_vars>>

\* what the steps of run_simulation leave alone (the reconciliation it calls
\* runs on the CascadeProtocol variables)
sim_frame == <<bb84_vars, aes_vars, service_vars, detector_vars, sweep_vars,
    jobs_vars>>

\* what direct calls of detect_photon leave alone, besides the BB84 variables
\* other than cfg and detector
detector_frame == <<cascade_vars, aes_vars, service_vars, sim_vars, sweep_vars,
    jobs_vars>>

\* what run_parameter_sweep and the construction of parameters leave alone
sweep_frame == <<bb84_vars, cascade_vars, aes_vars, service_vars, sim_vars, detector_vars,
    jobs_vars>>

\* what the requests and coroutines of main.py leave alone, besides the
\* variables of the simulator other than simulation_history
jobs_frame == <<bb84_vars, cascade_vars, aes_vars, service_vars, sim_vars, detector_vars>>

(***************************************************************************)
(* Bounds of the model.                                                    *)
(***************************************************************************)
MaxQubits == 2

MaxKeyLen == 4

MaxQkdBits == 8

MaxKeyBits == 2

MaxTicks == 1

MaxMessages == 2

(***************************************************************************)
(* Generic helpers.                                                        *)
(***************************************************************************)
Bit == {0, 1}

Max(a, b) == IF a >= b THEN a ELSE b

Min(a, b) == IF a <= b THEN a ELSE b

\* Python's list[:n] for n >= 0
Prefix(s, n) == SubSeq(s, 1, Min(n, Len(s)))

RECURSIVE SumSeq(_)
SumSeq(s) == IF s = <<>> THEN 0 ELSE Head(s) + SumSeq(Tail(s))

\* the increasing sequence of the elements of a finite set of integers
RECURSIVE SortedSeq(_)
SortedSeq(S) ==
    IF S = {} THEN <<>>
    ELSE LET m == CHOOSE x \in S : \A y \in S : x <= y
         IN <<m>> \o SortedSeq(S \ {m})

\* Python's None where the code stores None in a list of bits
NoResult == -1

(***************************************************************************)
(* quantum_states.py: qubit states.                                        *)
(* A qubit is kept as the class of its amplitudes that decides which       *)
(* measurement outcomes have non-zero probability:                         *)
(*   "Z0" |0>, "Z1" |1>, "X0" |+>, "X1" |->,                               *)
(*   "G"  any other state (both outcomes possible in both bases),          *)
(*   "None" a lost qubit.                                                  *)
(***************************************************************************)
BasisSet == {"Z", "X"}

FromBasisState(basis, value) ==
    IF basis = "Z" THEN (IF value = 0 THEN "Z0" ELSE "Z1")
    ELSE (IF value = 0 THEN "X0" ELSE "X1")

\* QubitState.measure: the results that random.random() < prob_0 can give
Measure(q, basis) ==
    CASE q = "Z0" /\ basis = "Z" -> {0}
      [] q = "Z1" /\ basis = "Z" -> {1}
      [] q = "X0" /\ basis = "X" -> {0}
      [] q = "X1" /\ basis = "X" -> {1}
      [] OTHER -> {0, 1}

\* beta := beta * exp(i*phase): |alpha|, |beta| keep their values, so a Z
\* state stays a Z state; an X state leaves the X eigenbasis.
PhaseShift(q) == IF q \in {"Z0", "Z1"} THEN q ELSE "G"

\* the real rotation of (alpha, beta) applied by polarization-mode dispersion
\* by an angle drawn from gauss(0, 1e-4 * sqrt(length)): the angle is 0 for a
\* channel of length 0
Rotate(q, length) == IF length > 0 THEN "G" ELSE q

\* QubitState.apply_noise: the depolarization draw, else the 15% phase error
ApplyNoise(q, depolarization_rate) ==
    (IF depolarization_rate > 0 THEN {"G"} ELSE {})
        \cup {PhaseShift(q)} \cup {q}

\* QuantumChannel._apply_wavelength_effects
ApplyWavelengthEffects(q, c) ==
    IF c.wavelength - 1550 > 10 \/ 1550 - c.wavelength > 10
    THEN {q, PhaseShift(q)} ELSE {q}

\* QuantumChannel._apply_channel_effects: noise, PMD rotation (10%), Kerr
\* phase (5%), wavelength effects; the timing offsets it adds are not read
\* by the receiver.
ApplyChannelEffects(q, c) ==
    LET afterNoise == ApplyNoise(q, c.channel_depolarization)
        afterPmd   == afterNoise \cup {Rotate(x, c.channel_length) : x \in afterNoise}
        afterKerr  == afterPmd \cup {PhaseShift(x) : x \in afterPmd}
    IN UNION {ApplyWavelengthEffects(x, c) : x \in afterKerr}

\* QuantumChannel.transmit_qubit: lost when random.random() >= transmission_prob,
\* which can happen only if the loss attenuation*length is positive
TransmitQubit(q, c) ==
    (IF c.channel_attenuation * c.channel_length > 0 THEN {"None"} ELSE {})
        \cup ApplyChannelEffects(q, c)

\* PhotonSource._apply_source_imperfections (wavelength_stability = 0.99)
ApplySourceImperfections(q) == {q, PhaseShift(q)}

\* PhotonSource.emit_photon: no photon when random.random() > efficiency or
\* when the Poisson(3.5) photon count is 0
EmitPhoton(q, c) == {"None"} \cup ApplySourceImperfections(q)

\* BB84Sender.transmit_qubits, one slot
TransmitSlot(q, c) ==
    UNION {IF e = "None" THEN {"None"} ELSE TransmitQubit(e, c) : e \in EmitPhoton(q, c)}

(***************************************************************************)
(* quantum_states.py: QuantumDetector.                                     *)
(* Times are in microseconds: slot i of receive_qubits is at time i.       *)
(***************************************************************************)
HistoryLimit == 1000

HistoryKeep == 500

DetectorInit ==
    [is_dead |-> FALSE, dead_until |-> 0, detection_history |-> <<>>,
     last_detection_time |-> 0]

\* _record_detection without the cut of lines 356-357
RecordWithoutTruncation(d, current_time, dead_time) ==
    [is_dead |-> TRUE,
     dead_until |-> current_time + dead_time,
     last_detection_time |-> current_time,
     detection_history |-> Append(d.detection_history, current_time)]

\* QuantumDetector._record_detection
RecordDetection(d, current_time, dead_time) ==
    LET h == Append(d.detection_history, current_time)
    IN [is_dead |-> TRUE,
        dead_until |-> current_time + dead_time,
        last_detection_time |-> current_time,
        detection_history |->
            IF Len(h) > HistoryLimit
            THEN SubSeq(h, Len(h) - HistoryKeep + 1, Len(h)) ELSE h]

\* detect_photon lines 315-345, past the dead-time check: the set of
\* (detected, flag, detector') it can return.  jitter tells whether
\* |timing_jitter| > 0.1 was drawn.
DetectWhenLive(d, c, qubit, current_time) ==
      (IF c.detector_dark_count_rate > 0
       THEN {[detected |-> TRUE, kind |-> "dark_count", jitter |-> FALSE,
              det |-> RecordDetection(d, current_time, c.detector_dead_time)]} ELSE {})
      \cup
      (IF c.crosstalk_probability > 0
       THEN {[detected |-> TRUE, kind |-> "crosstalk", jitter |-> FALSE,
              det |-> RecordDetection(d, current_time, c.detector_dead_time)]} ELSE {})
      \cup
      (IF d.detection_history # <<>> /\ c.afterpulse_probability > 0
       THEN {[detected |-> TRUE, kind |-> "afterpulse", jitter |-> FALSE,
              det |-> RecordDetection(d, current_time, c.detector_dead_time)]} ELSE {})
      \cup
      (IF qubit # "None"
       THEN {[detected |-> TRUE, kind |-> "real", jitter |-> j,
              det |-> RecordDetection(d, current_time, c.detector_dead_time)] :
                 j \in (IF c.detector_timing_jitter > 0 THEN BOOLEAN ELSE {FALSE})}
       ELSE {})
      \cup
      (IF qubit = "None" \/ c.detector_efficiency < 100
       THEN {[detected |-> FALSE, kind |-> "miss", jitter |-> FALSE, det |-> d]}
       ELSE {})

\* detect_photon without the dead-time check of lines 310-312
DetectPhotonWhileDead(d, c, qubit, current_time) ==
    DetectWhenLive(d, c, qubit, current_time)

\* QuantumDetector.detect_photon
DetectPhoton(d, c, qubit, current_time) ==
    IF d.is_dead /\ current_time < d.dead_until
    THEN {[detected |-> FALSE, kind |-> "dead_time_effect", jitter |-> FALSE, det |-> d]}
    ELSE DetectWhenLive(d, c, qubit, current_time)

(***************************************************************************)
(* bb84_protocol.py                                                        *)
(***************************************************************************)
AllPhases ==
    <<"INITIALIZATION", "QUANTUM_TRANSMISSION", "BASIS_ANNOUNCEMENT", "SIFTING",
      "ERROR_ESTIMATION", "RECONCILIATION", "PRIVACY_AMPLIFICATION", "COMPLETED">>

NoAttackParameters == [present |-> FALSE, has_strength |-> FALSE, strength |-> 0]

\* attack_parameters.get('strength', 0.5), in tenths
StrengthOf(ap) == IF ap.has_strength THEN ap.strength ELSE 5

\* The runs explored: a noise-free set-up (every imperfection a caller can
\* switch off is off), a fully imperfect one, set-ups under attack, and an
\* attack requested without attack_parameters.
\* Units: efficiencies in percent, channel_depolarization in 1/1000,
\* detector_dead_time in microseconds, attack strength in tenths.
\* BB84Receiver builds its detector with the constructor defaults
\* afterpulse_probability = 0.01 and crosstalk_probability = 0.001 (NoisyConfig);
\* IdealConfig is the detector with those two attributes cleared, the most
\* favourable reading of "no detector imperfections".
IdealConfig ==
    [num_qubits |-> 0, channel_length |-> 0, channel_attenuation |-> 0,
     channel_depolarization |-> 0, photon_source_efficiency |-> 100,
     detector_efficiency |-> 100, detector_dark_count_rate |-> 0,
     detector_dead_time |-> 0, detector_timing_jitter |-> 0,
     afterpulse_probability |-> 0, crosstalk_probability |-> 0,
     wavelength |-> 1550, attack_type |-> "None",
     attack_parameters |-> NoAttackParameters]

NoisyConfig ==
    [IdealConfig EXCEPT !.channel_length = 10, !.channel_attenuation = 1,
        !.channel_depolarization = 10, !.photon_source_efficiency = 80,
        !.detector_efficiency = 80, !.detector_dark_count_rate = 100,
        !.detector_dead_time = 2, !.detector_timing_jitter = 1,
        !.afterpulse_probability = 1, !.crosstalk_probability = 1,
        !.wavelength = 1310]

AttackConfigs ==
    {[IdealConfig EXCEPT !.attack_type = t,
         !.attack_parameters = [present |-> TRUE, has_strength |-> h, strength |-> s]] :
       t \in {"intercept_resend", "photon_number_splitting", "detector_blinding", "no_attack"},
       h \in {TRUE}, s \in {5}}
    \cup {[IdealConfig EXCEPT !.attack_type = "intercept_resend",
              !.attack_parameters = [present |-> TRUE, has_strength |-> FALSE, strength |-> 0]],
          [IdealConfig EXCEPT !.attack_type = "intercept_resend"],
          [IdealConfig EXCEPT !.attack_type = "man_in_the_middle"]}

\* a lossless set-up whose detector has no dark counts, dead time or jitter
\* but keeps the afterpulse and crosstalk probabilities BB84Receiver builds
\* it with, and misses one photon in five; it sends three qubits, so that a
\* detection, an empty slot and an afterpulse can follow each other
AfterpulseConfig ==
    [IdealConfig EXCEPT !.detector_efficiency = 80,
        !.afterpulse_probability = 1, !.crosstalk_probability = 1,
        !.num_qubits = 3]

\* every set-up with up to MaxQubits qubits, and the afterpulse set-up
Configs ==
    {[c EXCEPT !.num_qubits = n] :
        c \in {IdealConfig, NoisyConfig} \cup AttackConfigs, n \in 0..MaxQubits}
    \cup {AfterpulseConfig}

BB84Idle ==
    /\ bases = <<>>
    /\ bit_values = <<>>
    /\ transmitted_qubits = <<>>
    /\ measurement_bases = <<>>
    /\ measurement_results = <<>>
    /\ detection_results = <<>>
    /\ detection_info = <<>>
    /\ detector = DetectorInit
    /\ protocol_phases = <<>>
    /\ bb84_result = [returned |-> FALSE]

\* BB84Protocol.__init__
InitBB84 ==
    /\ cfg \in Configs
    /\ pc = "start"
    /\ BB84Idle

\* execute_protocol up to sender.initialize_protocol (create_bb84_states)
InitializeProtocol ==
    /\ pc = "start"
    /\ \E bs \in [1..cfg.num_qubits -> BasisSet], vs \in [1..cfg.num_qubits -> Bit] :
         /\ bases' = bs
         /\ bit_values' = vs
    /\ protocol_phases' = <<"INITIALIZATION", "QUANTUM_TRANSMISSION">>
    /\ pc' = "transmit"
    /\ UNCHANGED <<cfg, transmitted_qubits, measurement_bases, measurement_results,
                   detection_results, detection_info, detector, bb84_result>>
    /\ UNCHANGED bb84_frame

\* sender.transmit_qubits
TransmitQubits ==
    /\ pc = "transmit"
    /\ \E tq \in [1..cfg.num_qubits -> {"None", "Z0", "Z1", "X0", "X1", "G"}] :
         /\ \A i \in 1..cfg.num_qubits :
               tq[i] \in TransmitSlot(FromBasisState(bases[i], bit_values[i]), cfg)
         /\ transmitted_qubits' = tq
    /\ pc' = "attack"
    /\ UNCHANGED <<cfg, bases, bit_values, measurement_bases, measurement_results,
                   detection_results, detection_info, detector, protocol_phases,
                   bb84_result>>
    /\ UNCHANGED bb84_frame

\* the strength _apply_attack_to_qubits hands to _intercept_resend_attack,
\* in hundredths: PNS scales by 0.7, detector blinding by 0.8
EffectiveStrength(attack_type, ap) ==
    CASE attack_type = "photon_number_splitting" -> StrengthOf(ap) * 7
      [] attack_type = "detector_blinding" -> StrengthOf(ap) * 8
      [] OTHER -> StrengthOf(ap) * 10

\* _intercept_resend_attack: the qubit lists it can return
InterceptResendAttack(qubits, strength100) ==
    LET valid == {i \in DOMAIN qubits : qubits[i] # "None"}
        num   == Max(1, (Cardinality(valid) * strength100) \div 100)
        k     == Min(num, Cardinality(valid))
    IN IF valid = {} THEN {qubits}
       ELSE {m \in [DOMAIN qubits -> {"None", "Z0", "Z1", "X0", "X1", "G"}] :
               \E A \in SUBSET valid :
                  /\ Cardinality(A) = k
                  /\ \A i \in DOMAIN qubits :
                        IF i \in A THEN m[i] \in {"Z0", "Z1", "X0", "X1"}
                        ELSE m[i] = qubits[i]}

AttackRequested == cfg.attack_type # "None" /\ cfg.attack_type # "no_attack"

KnownAttacks == {"intercept_resend", "photon_number_splitting", "detector_blinding"}

\* execute_protocol lines 266-269: no attack requested
SkipAttack ==
    /\ pc = "attack"
    /\ ~AttackRequested
    /\ pc' = "receive"
    /\ UNCHANGED <<cfg, bases, bit_values, transmitted_qubits, measurement_bases,
                   measurement_results, detection_results, detection_info, detector,
                   protocol_phases, bb84_result>>
    /\ UNCHANGED bb84_frame

\* _apply_attack_to_qubits: the three modelled attacks go through
\* _intercept_resend_attack, any other attack type returns the qubits as they are
ApplyAttack ==
    /\ pc = "attack"
    /\ AttackRequested
    /\ cfg.attack_type \in KnownAttacks => cfg.attack_parameters.present
    /\ transmitted_qubits' \in
          (IF cfg.attack_type \in KnownAttacks
           THEN InterceptResendAttack(transmitted_qubits,
                    EffectiveStrength(cfg.attack_type, cfg.attack_parameters))
           ELSE {transmitted_qubits})
    /\ pc' = "receive"
    /\ UNCHANGED <<cfg, bases, bit_values, measurement_bases, measurement_results,
                   detection_results, detection_info, detector, protocol_phases,
                   bb84_result>>
    /\ UNCHANGED bb84_frame

\* attack_parameters is None: attack_parameters.get raises AttributeError and
\* execute_protocol does not return
AttackRaises ==
    /\ pc = "attack"
    /\ AttackRequested
    /\ cfg.attack_type \in KnownAttacks
    /\ ~cfg.attack_parameters.present
    /\ pc' = "raised"
    /\ UNCHANGED <<cfg, bases, bit_values, transmitted_qubits, measurement_bases,
                   measurement_results, detection_results, detection_info, detector,
                   protocol_phases, bb84_result>>
    /\ UNCHANGED bb84_frame

\* The result recorded for a detected slot (receive_qubits lines 144-162)
DetectedResults(qubit, basis, out, results) ==
    LET measured == Measure(qubit, basis)
        corrected ==
            CASE out.kind = "dark_count" -> {0, 1}
              [] out.kind = "crosstalk" -> {1 - r : r \in measured}
              [] out.kind = "afterpulse" ->
                    IF results # <<>> THEN {results[Len(results)]} ELSE measured
              [] OTHER -> measured
    IN IF out.jitter THEN corrected \cup {1 - r : r \in corrected} ELSE corrected

\* BB84Receiver.receive_qubits, one iteration of its loop; consumed slots of
\* the local list are not read again
ReceiveQubit ==
    /\ pc = "receive"
    /\ Len(measurement_results) < cfg.num_qubits
    /\ LET i     == Len(measurement_results) + 1
           qubit == transmitted_qubits[i]
       IN /\ IF qubit # "None"
             THEN \E basis \in BasisSet :
                  \E out \in DetectPhoton(detector, cfg, qubit, i - 1) :
                     /\ detector' = out.det
                     /\ detection_info' = Append(detection_info, out.kind)
                     /\ detection_results' = Append(detection_results, out.detected)
                     /\ IF out.detected
                        THEN /\ measurement_bases' = Append(measurement_bases, basis)
                             /\ \E r \in DetectedResults(qubit, basis, out, measurement_results) :
                                   measurement_results' = Append(measurement_results, r)
                        ELSE /\ measurement_bases' = Append(measurement_bases, "None")
                             /\ measurement_results' = Append(measurement_results, NoResult)
             ELSE /\ measurement_bases' = Append(measurement_bases, "None")
                  /\ measurement_results' = Append(measurement_results, NoResult)
                  /\ detection_results' = Append(detection_results, FALSE)
                  /\ detection_info' = Append(detection_info, "lost")
                  /\ detector' = detector
          /\ transmitted_qubits' = [transmitted_qubits EXCEPT ![i] = "None"]
    /\ UNCHANGED <<cfg, pc, bases, bit_values, protocol_phases, bb84_result>>
    /\ UNCHANGED bb84_frame

\* C24: for every slot at which detection succeeded the receiver's recorded
\* measurement result is 0 or 1, never absent, also when the detection is an
\* afterpulse repeating the result of a previous slot that was lost or
\* undetected.
C24_DetectedSlotsHoldBits ==
    \A i \in DOMAIN measurement_results :
        detection_results[i] => measurement_results[i] \in Bit

\* C26: in the result of execute_protocol (no advanced reconciliation or
\* privacy amplification applied to it), final_key_sender and
\* final_key_receiver are the same bit sequence, a prefix of the sender's
\* sifted key, and the reported qber is 0, also when the built-in
\* reconciliation left sifted errors uncorrected.
C26_BuiltInFinalKeysIdentical ==
    bb84_result.returned =>
        /\ bb84_result.final_key_sender = bb84_result.final_key_receiver
        /\ bb84_result.final_key_sender =
              Prefix(bb84_result.sifted_key_sender, bb84_result.final_key_length)
        /\ bb84_result.qber.num = 0

\* a returned result whose final key covers a position the built-in
\* reconciliation left uncorrected
C26_Witness ==
    /\ bb84_result.returned
    /\ bb84_result.reconciliation_info.uncorrected_errors # <<>>
    /\ bb84_result.reconciliation_info.uncorrected_errors[1]
          < bb84_result.final_key_length

\* get_matching_bases without the comparison of the two bases
MatchingIgnoringBasis(sender_bases, receiver_bases) ==
    SortedSeq({i - 1 : i \in {j \in DOMAIN receiver_bases : receiver_bases[j] # "None"}})

\* BB84Receiver.get_matching_bases (0-based indices)
RECURSIVE MatchingFrom(_, _, _)
MatchingFrom(sender_bases, receiver_bases, i) ==
    IF i > Min(Len(sender_bases), Len(receiver_bases)) THEN <<>>
    ELSE (IF receiver_bases[i] # "None" /\ sender_bases[i] = receiver_bases[i]
          THEN <<i - 1>> ELSE <<>>)
         \o MatchingFrom(sender_bases, receiver_bases, i + 1)

GetMatchingBases(sender_bases, receiver_bases) ==
    MatchingFrom(sender_bases, receiver_bases, 1)

\* BB84Sender.get_sifted_key / BB84Receiver.get_sifted_key
GetSiftedKey(values, matching) == [k \in 1..Len(matching) |-> values[matching[k] + 1]]

\* execute_protocol lines 282-285 (0-based positions in the sifted keys)
ErrorPositions(s, r) ==
    LET differing == {i \in 1..Min(Len(s), Len(r)) : s[i] # r[i]}
    IN [k \in 1..Cardinality(differing) |->
           (CHOOSE i \in differing : Cardinality({j \in differing : j < i}) = k - 1) - 1]

\* a rate kept as the exact fraction num/den
Rate(n, d) == [num |-> n, den |-> d]

\* quantum_states.calculate_qber (the keys it is given have equal lengths)
CalculateQber(s, r) ==
    IF Len(s) = 0 THEN Rate(0, 1) ELSE Rate(Len(ErrorPositions(s, r)), Len(s))

\* BB84Protocol._perform_reconciliation: random.sample picks which
\* int(0.6 * errors) of the error positions are corrected
PerformReconciliation(ks, kr, errors) ==
    LET errs == {errors[k] : k \in DOMAIN errors}
        num_to_correct == (Len(errors) * 6) \div 10
    IN {[reconciled_key_sender |-> ks,
         reconciled_key_receiver |->
             [k \in DOMAIN kr |->
                 IF (k - 1) \in chosen THEN ks[k] ELSE kr[k]],
         uncorrected_errors |-> SortedSeq(errs \ chosen)] :
           chosen \in {A \in SUBSET errs : Cardinality(A) = num_to_correct}}

\* BB84Protocol._perform_privacy_amplification
PerformPrivacyAmplification(ks, kr) ==
    LET key_length == Len(ks)
        final_length == IF key_length < 10
                        THEN Max(1, (key_length * 8) \div 10)
                        ELSE Max(1, (key_length * 98) \div 100)
    IN [privacy_amplified_key |-> Prefix(ks, final_length),
        original_length |-> key_length]

\* a final key cut from the party's own reconciled key
FinalKeyFromOwnKey(key, privacy_amplification_info) ==
    Prefix(key, Len(privacy_amplification_info.privacy_amplified_key))

\* BB84Protocol._generate_final_key
GenerateFinalKey(key, privacy_amplification_info) ==
    privacy_amplification_info.privacy_amplified_key

\* the phase list with the SIFTING append left out
PhasesWithoutSifting ==
    <<"BASIS_ANNOUNCEMENT", "ERROR_ESTIMATION", "RECONCILIATION",
      "PRIVACY_AMPLIFICATION", "COMPLETED">>

\* the phases execute_protocol appends after receive_qubits (lines 272-314)
PostProcessingPhases ==
    <<"BASIS_ANNOUNCEMENT", "SIFTING", "ERROR_ESTIMATION",
      "RECONCILIATION", "PRIVACY_AMPLIFICATION", "COMPLETED">>

\* execute_protocol lines 272-335, after receive_qubits has returned
CompleteProtocol ==
    /\ pc = "receive"
    /\ Len(measurement_results) = cfg.num_qubits
    /\ LET matching == GetMatchingBases(bases, measurement_bases)
           sifted_s == GetSiftedKey(bit_values, matching)
           sifted_r == GetSiftedKey(measurement_results, matching)
           errors   == ErrorPositions(sifted_s, sifted_r)
       IN \E rec \in PerformReconciliation(sifted_s, sifted_r, errors) :
            LET pa == PerformPrivacyAmplification(rec.reconciled_key_sender,
                                                  rec.reconciled_key_receiver)
                final_s == GenerateFinalKey(rec.reconciled_key_sender, pa)
                final_r == GenerateFinalKey(rec.reconciled_key_receiver, pa)
            IN /\ protocol_phases' = protocol_phases \o PostProcessingPhases
               /\ bb84_result' =
                      [returned |-> TRUE,
                       raw_key_length |-> cfg.num_qubits,
                       matching_indices |-> matching,
                       sifted_key_length |-> Len(sifted_s),
                       final_key_length |-> Len(final_s),
                       qber |-> CalculateQber(final_s, final_r),
                       sifted_qber |-> IF Len(sifted_s) > 0
                                       THEN Rate(Len(errors), Len(sifted_s))
                                       ELSE Rate(0, 1),
                       error_positions |-> errors,
                       sifted_key_sender |-> sifted_s,
                       sifted_key_receiver |-> sifted_r,
                       final_key_sender |-> final_s,
                       final_key_receiver |-> final_r,
                       protocol_phases |-> protocol_phases',
                       reconciliation_info |-> rec]
    /\ pc' = "done"
    /\ UNCHANGED <<cfg, bases, bit_values, transmitted_qubits, measurement_bases,
                   measurement_results, detection_results, detection_info, detector>>
    /\ UNCHANGED bb84_frame

NextBB84 ==
    \/ InitializeProtocol
    \/ TransmitQubits
    \/ SkipAttack
    \/ ApplyAttack
    \/ AttackRaises
    \/ ReceiveQubit
    \/ CompleteProtocol


(***************************************************************************)
(* Properties of execute_protocol.                                         *)
(***************************************************************************)
SeqToSet(s) == {s[k] : k \in DOMAIN s}

\* C1: after execute_protocol, index i is in the matching indices exactly when
\* the detection at i succeeded and the receiver's recorded basis equals the
\* sender's; the matching list has no repetition and its length is the length
\* of both sifted keys, which is at most num_qubits.
C1_MatchingIndices ==
    bb84_result.returned =>
        /\ \A i \in 0..(cfg.num_qubits - 1) :
              (i \in SeqToSet(bb84_result.matching_indices))
                 <=> (detection_results[i + 1] /\ measurement_bases[i + 1] = bases[i + 1])
        /\ SeqToSet(bb84_result.matching_indices) \subseteq 0..(cfg.num_qubits - 1)
        /\ Cardinality(SeqToSet(bb84_result.matching_indices))
              = Len(bb84_result.matching_indices)
        /\ Len(bb84_result.matching_indices) = Len(bb84_result.sifted_key_sender)
        /\ Len(bb84_result.matching_indices) = Len(bb84_result.sifted_key_receiver)
        /\ Len(bb84_result.matching_indices) = bb84_result.sifted_key_length
        /\ Len(bb84_result.matching_indices) <= cfg.num_qubits

\* a run with a matched slot, a detected slot measured in the other basis and
\* so not matched, or a slot that was not detected
C1_Witness ==
    /\ bb84_result.returned
    /\ cfg.num_qubits = MaxQubits
    /\ Len(bb84_result.matching_indices) = 1
    /\ \E i \in 1..cfg.num_qubits : ~detection_results[i]

\* C2: the phase list only ever grows along the fixed order, and every call
\* of execute_protocol that returns has recorded exactly the eight phases in
\* that order, both on the protocol object and in the returned result.
C2_PhaseOrder ==
    /\ protocol_phases = Prefix(AllPhases, Len(protocol_phases))
    /\ bb84_result.returned =>
          /\ protocol_phases = AllPhases
          /\ bb84_result.protocol_phases = AllPhases

\* a returning run under attack whose sifted key is empty
C2_Witness ==
    /\ bb84_result.returned
    /\ AttackRequested
    /\ cfg.num_qubits > 0
    /\ bb84_result.sifted_key_length = 0
    /\ \A i \in 1..cfg.num_qubits : ~detection_results[i]

\* every imperfection a caller can switch off is off
NoiseFree(c) ==
    /\ c.channel_depolarization = 0
    /\ c.detector_dark_count_rate = 0
    /\ c.channel_attenuation * c.channel_length = 0
    /\ c.photon_source_efficiency = 100
    /\ c.detector_efficiency = 100
    /\ c.detector_timing_jitter = 0
    /\ c.afterpulse_probability = 0
    /\ c.crosstalk_probability = 0
    /\ c.attack_type = "None"

\* C4: with no depolarization, no dark counts, no loss, perfect efficiencies,
\* no attack and no detector imperfections the sifted QBER is exactly 0.
C4_NoiseFreeQberZero ==
    (bb84_result.returned /\ NoiseFree(cfg)) => bb84_result.sifted_qber.num = 0

(***************************************************************************)
(* reconciliation.py: CascadeProtocol                                      *)
(***************************************************************************)
\* Python's None where _find_error_in_block returns no position
NoPosition == -1

\* CascadeProtocol.__init__ with its defaults
DefaultCascade ==
    [initial_block_size |-> 64, max_rounds |-> 4, parity_check_method |-> "random"]

\* no reconcile call has been made
CascadeIdle ==
    /\ cascade = DefaultCascade
    /\ cascade_pc = "none"
    /\ key_sender = <<>>
    /\ key_receiver = <<>>
    /\ corrected_sender = <<>>
    /\ corrected_receiver = <<>>
    /\ revealed_positions = {}
    /\ error_positions = <<>>
    /\ block_size = 0
    /\ round_num = 0
    /\ rounds_completed = 0
    /\ bits_revealed = 0
    /\ cascade_result = [returned |-> FALSE]

BitSeqs(n) == UNION {[1..k -> Bit] : k \in 0..n}

\* random.seed(42 + round_num); positions = list(range(key_length));
\* random.shuffle(positions): the permutations CPython's generator gives for
\* these seeds (round_num in 0..3), for the key lengths explored
ShuffledPositions(key_length, round) ==
    CASE key_length = 0 -> <<>>
      [] key_length = 1 -> <<0>>
      [] key_length = 2 -> <<<<1, 0>>, <<1, 0>>, <<0, 1>>, <<0, 1>>>>[round + 1]
      [] key_length = 3 -> <<<<1, 0, 2>>, <<2, 1, 0>>, <<2, 0, 1>>, <<0, 2, 1>>>>[round + 1]
      [] key_length = 4 -> <<<<2, 1, 3, 0>>, <<2, 3, 1, 0>>, <<1, 0, 2, 3>>, <<0, 3, 1, 2>>>>[round + 1]
      [] key_length = 5 -> <<<<3, 1, 2, 4, 0>>, <<1, 4, 3, 2, 0>>, <<2, 1, 4, 0, 3>>, <<0, 4, 1, 3, 2>>>>[round + 1]
      [] key_length = 6 -> <<<<3, 1, 2, 4, 0, 5>>, <<5, 4, 3, 1, 2, 0>>, <<2, 1, 5, 0, 4, 3>>, <<5, 0, 1, 4, 3, 2>>>>[round + 1]
      [] key_length = 7 -> <<<<1, 3, 4, 2, 6, 0, 5>>, <<5, 6, 4, 3, 1, 2, 0>>, <<2, 1, 6, 0, 5, 4, 3>>, <<4, 1, 0, 6, 5, 3, 2>>>>[round + 1]
      [] key_length = 100 ->
          <<
          <<
           42, 41, 91, 9, 65, 50, 1, 70, 15, 78, 73, 10, 55, 56, 72, 45, 48,
           92, 76, 37, 30, 21, 32, 96, 80, 49, 83, 26, 87, 33, 8, 47, 59, 63,
           74, 44, 98, 52, 85, 12, 36, 23, 39, 40, 18, 66, 61, 60, 7, 34, 99,
           46, 2, 51, 16, 38, 58, 68, 22, 62, 24, 5, 6, 67, 82, 19, 79, 43,
           90, 20, 0, 95, 57, 93, 53, 89, 25, 71, 84, 77, 64, 29, 27, 88, 97,
           4, 54, 75, 11, 69, 86, 13, 17, 28, 31, 35, 94, 3, 14, 81>>,
          <<
           35, 67, 30, 32, 0, 14, 51, 71, 62, 87, 25, 40, 26, 42, 92, 1, 75,
           27, 74, 9, 31, 52, 86, 72, 38, 82, 68, 57, 69, 81, 98, 44, 80, 5,
           8, 54, 28, 78, 45, 21, 29, 66, 83, 56, 43, 46, 41, 95, 6, 39, 33,
           61, 17, 96, 10, 53, 90, 11, 60, 37, 3, 99, 24, 23, 34, 64, 49, 16,
           88, 93, 20, 91, 19, 48, 15, 13, 7, 22, 50, 84, 70, 79, 94, 73, 55,
           65, 2, 77, 63, 76, 58, 12, 97, 85, 47, 59, 18, 89, 36, 4>>,
          <<
           54, 31, 82, 46, 25, 63, 70, 10, 32, 26, 53, 99, 86, 35, 33, 50,
           56, 60, 11, 73, 42, 17, 87, 19, 61, 18, 96, 7, 0, 5, 55, 44, 62,
           39, 98, 71, 79, 67, 64, 29, 58, 23, 21, 77, 78, 76, 27, 80, 74, 2,
           90, 49, 15, 47, 16, 97, 57, 68, 59, 30, 6, 24, 94, 4, 91, 13, 40,
           34, 85, 8, 83, 88, 84, 36, 43, 9, 45, 41, 51, 75, 93, 81, 38, 65,
           20, 12, 1, 72, 95, 92, 3, 37, 28, 48, 22, 14, 89, 69, 66, 52>>,
          <<
           81, 59, 6, 63, 25, 72, 93, 95, 68, 87, 29, 60, 55, 64, 5, 94, 78,
           49, 0, 58, 67, 28, 57, 92, 80, 88, 76, 71, 30, 35, 65, 26, 51, 73,
           77, 90, 86, 97, 75, 70, 13, 23, 31, 3, 98, 37, 16, 69, 56, 85, 46,
           66, 82, 42, 33, 47, 44, 24, 50, 20, 21, 48, 89, 11, 74, 12, 40,
           45, 96, 41, 22, 84, 7, 18, 52, 91, 54, 27, 19, 99, 17, 8, 79, 4,
           83, 39, 15, 36, 14, 1, 61, 9, 2, 43, 38, 10, 32, 62, 53, 34>>
          >>[round + 1]

\* positions[i:i + block_size] for i in range(0, key_length, block_size),
\* keeping the blocks of at least 2 positions
RECURSIVE Chunks(_, _)
Chunks(positions, size) ==
    IF positions = <<>> THEN <<>>
    ELSE LET block == Prefix(positions, size)
         IN (IF Len(block) >= 2 THEN <<block>> ELSE <<>>)
            \o Chunks(SubSeq(positions, size + 1, Len(positions)), size)

\* CascadeProtocol._create_blocks
CreateBlocks(method, key_length, size, round) ==
    IF method = "random"
    THEN Chunks(ShuffledPositions(key_length, round), size)
    ELSE Chunks([k \in 1..key_length |-> k - 1], size)

\* sum(key[i] for i in block_indices) % 2
Parity(key, block_indices) ==
    SumSeq([k \in DOMAIN block_indices |-> key[block_indices[k] + 1]]) % 2

\* a search that reports the first position of the block without comparing
FirstOfBlock(ks, kr, block_indices) == block_indices[1]

\* CascadeProtocol._find_error_in_block
RECURSIVE FindErrorInBlock(_, _, _)
FindErrorInBlock(ks, kr, block_indices) ==
    IF Len(block_indices) = 1
    THEN (IF ks[block_indices[1] + 1] # kr[block_indices[1] + 1]
          THEN block_indices[1] ELSE NoPosition)
    ELSE LET mid   == Len(block_indices) \div 2
             left  == SubSeq(block_indices, 1, mid)
             right == SubSeq(block_indices, mid + 1, Len(block_indices))
         IN IF Parity(ks, left) # Parity(kr, left)
            THEN FindErrorInBlock(ks, kr, left)
            ELSE FindErrorInBlock(ks, kr, right)

\* reconcile lines 72-93: the loop over the blocks of one round, on the
\* locals st = (corrected_receiver, error_positions, revealed_positions,
\* bits_revealed)
RECURSIVE ProcessBlocks(_, _, _)
ProcessBlocks(st, ks, blocks) ==
    IF blocks = <<>> THEN st
    ELSE LET block == Head(blocks)
             error_pos == FindErrorInBlock(ks, st.corrected_receiver, block)
             st2 == IF Len(block) >= 2
                       /\ Parity(ks, block) # Parity(st.corrected_receiver, block)
                       /\ error_pos # NoPosition
                    THEN [corrected_receiver |->
                              [st.corrected_receiver EXCEPT ![error_pos + 1] = ks[error_pos + 1]],
                          error_positions |-> Append(st.error_positions, error_pos),
                          revealed_positions |-> st.revealed_positions \cup {error_pos},
                          bits_revealed |-> st.bits_revealed + 1]
                    ELSE st
         IN ProcessBlocks(st2, ks, Tail(blocks))

\* CascadeProtocol._calculate_qber, as errors/length
CascadeQber(key1, key2) ==
    IF Len(key1) # Len(key2) THEN Rate(1, 1)
    ELSE IF Len(key1) = 0 THEN Rate(0, 1)
    ELSE Rate(Len(ErrorPositions(key1, key2)), Len(key1))

\* the CascadeProtocol objects and reconcile arguments explored
CascadeConfigs ==
    [initial_block_size : {2, 4, 64}, max_rounds : {1, 4},
     parity_check_method : {"random", "sequential"}]

\* CascadeProtocol.__init__, with the arguments a caller will pass to reconcile
InitCascade ==
    /\ cascade \in CascadeConfigs
    /\ cascade_pc = "idle"
    /\ key_sender \in BitSeqs(MaxKeyLen)
    /\ key_receiver \in BitSeqs(MaxKeyLen)
    /\ corrected_sender = <<>>
    /\ corrected_receiver = <<>>
    /\ revealed_positions = {}
    /\ error_positions = <<>>
    /\ block_size = 0
    /\ round_num = 0
    /\ rounds_completed = 0
    /\ bits_revealed = 0
    /\ cascade_result = [returned |-> FALSE]

\* reconcile lines 55-56: keys of different lengths raise ValueError
ReconcileLengthError ==
    /\ cascade_pc = "idle"
    /\ Len(key_sender) # Len(key_receiver)
    /\ cascade_pc' = "raised"
    /\ UNCHANGED <<cascade, key_sender, key_receiver, corrected_sender, corrected_receiver,
                   revealed_positions, error_positions, block_size, round_num,
                   rounds_completed, bits_revealed, cascade_result>>
    /\ UNCHANGED cascade_frame

\* reconcile lines 58-65: the copies and the locals
ReconcileBegin ==
    /\ cascade_pc = "idle"
    /\ Len(key_sender) = Len(key_receiver)
    /\ corrected_sender' = key_sender
    /\ corrected_receiver' = key_receiver
    /\ revealed_positions' = {}
    /\ error_positions' = <<>>
    /\ block_size' = cascade.initial_block_size
    /\ round_num' = 0
    /\ cascade_pc' = "round"
    /\ UNCHANGED <<cascade, key_sender, key_receiver, rounds_completed, bits_revealed,
                   cascade_result>>
    /\ UNCHANGED cascade_frame

\* reconcile lines 66-100: one round of the loop
ReconcileRound ==
    /\ cascade_pc = "round"
    /\ round_num < cascade.max_rounds
    /\ LET blocks == CreateBlocks(cascade.parity_check_method, Len(key_sender),
                                  block_size, round_num)
           st == ProcessBlocks([corrected_receiver |-> corrected_receiver,
                                error_positions |-> error_positions,
                                revealed_positions |-> revealed_positions,
                                bits_revealed |-> bits_revealed],
                               corrected_sender, blocks)
           qber == CascadeQber(corrected_sender, st.corrected_receiver)
       IN /\ rounds_completed' = round_num + 1
          /\ corrected_receiver' = st.corrected_receiver
          /\ error_positions' = st.error_positions
          /\ revealed_positions' = st.revealed_positions
          /\ bits_revealed' = st.bits_revealed
          /\ block_size' = Max(2, block_size \div 2)
          /\ IF qber.num * 1000 < qber.den \/ round_num + 1 = cascade.max_rounds
             THEN cascade_pc' = "finish" /\ round_num' = round_num
             ELSE cascade_pc' = "round" /\ round_num' = round_num + 1
    /\ UNCHANGED <<cascade, key_sender, key_receiver, corrected_sender, cascade_result>>
    /\ UNCHANGED cascade_frame

\* reconcile lines 103-115 for a key of positive length
ReconcileReturn ==
    /\ cascade_pc = "finish"
    /\ Len(key_sender) > 0
    /\ cascade_result' =
          [returned |-> TRUE,
           corrected_key_sender |-> corrected_sender,
           corrected_key_receiver |-> corrected_receiver,
           discarded_positions |-> SortedSeq(revealed_positions),
           error_positions |-> error_positions,
           reconciliation_method |-> "cascade",
           rounds_required |-> rounds_completed,
           bits_revealed |-> bits_revealed,
           success_rate |-> Rate(Len(key_sender) - Len(error_positions), Len(key_sender)),
           final_key_length |-> Len(key_sender) - Cardinality(revealed_positions)]
    /\ cascade_pc' = "done"
    /\ UNCHANGED <<cascade, key_sender, key_receiver, corrected_sender, corrected_receiver,
                   revealed_positions, error_positions, block_size, round_num,
                   rounds_completed, bits_revealed>>
    /\ UNCHANGED cascade_frame

\* reconcile line 104 for empty keys: len(error_positions) / key_length
\* raises ZeroDivisionError
ReconcileDivisionByZero ==
    /\ cascade_pc = "finish"
    /\ Len(key_sender) = 0
    /\ cascade_pc' = "raised"
    /\ UNCHANGED <<cascade, key_sender, key_receiver, corrected_sender, corrected_receiver,
                   revealed_positions, error_positions, block_size, round_num,
                   rounds_completed, bits_revealed, cascade_result>>
    /\ UNCHANGED cascade_frame

NextCascade ==
    \/ ReconcileLengthError
    \/ ReconcileBegin
    \/ ReconcileRound
    \/ ReconcileReturn
    \/ ReconcileDivisionByZero


\* number of positions where two keys of equal length differ
Errors(k1, k2) == Cardinality({i \in DOMAIN k1 : k1[i] # k2[i]})

\* C3: while and after reconcile runs, the sender's key is never changed, the
\* receiver's key is changed only at positions where it differed from the
\* sender's and only to the sender's bit, the number of differing positions
\* never exceeds the number before the call, and neither the list of corrected
\* positions nor the returned discarded positions repeat a position.
C3_CascadeOnlyCorrects ==
    cascade_pc \in {"round", "finish", "done"} =>
        /\ corrected_sender = key_sender
        /\ Len(corrected_receiver) = Len(key_receiver)
        /\ \A i \in DOMAIN key_receiver :
              corrected_receiver[i] # key_receiver[i] =>
                 (key_sender[i] # key_receiver[i] /\ corrected_receiver[i] = key_sender[i])
        /\ Errors(corrected_sender, corrected_receiver) <= Errors(key_sender, key_receiver)
        /\ Cardinality(SeqToSet(error_positions)) = Len(error_positions)
        /\ SeqToSet(error_positions) = revealed_positions
        /\ cascade_result.returned =>
              /\ cascade_result.corrected_key_sender = key_sender
              /\ cascade_result.corrected_key_receiver = corrected_receiver
              /\ Cardinality(SeqToSet(cascade_result.discarded_positions))
                    = Len(cascade_result.discarded_positions)
              /\ SeqToSet(cascade_result.discarded_positions) = revealed_positions

\* a returned reconciliation that corrected one error and left another in place
C3_Witness ==
    /\ cascade_result.returned
    /\ Len(error_positions) >= 1
    /\ Errors(corrected_sender, corrected_receiver) >= 1
    /\ Errors(corrected_sender, corrected_receiver) < Errors(key_sender, key_receiver)

\* C14: when sifting yields no matching index, the keys handed to
\* CascadeProtocol.reconcile are empty, and the call returns empty keys
\* instead of raising an error.
C14_EmptyKeysReturn ==
    (key_sender = <<>> /\ key_receiver = <<>>) => cascade_pc # "raised"

\* C20: the success_rate returned by reconcile equals
\* 1 - (number of positions at which the returned corrected keys still
\* differ) / key_length.
C20_SuccessRateCountsRemaining ==
    cascade_result.returned =>
        LET remaining == Errors(cascade_result.corrected_key_sender,
                                cascade_result.corrected_key_receiver)
            claimed == Rate(Len(key_sender) - remaining, Len(key_sender))
        IN cascade_result.success_rate.num * claimed.den
              = claimed.num * cascade_result.success_rate.den

(***************************************************************************)
(* aes_integration.py: QKDAESIntegration.                                  *)
(* A byte string is a sequence of byte records.  Bytes the code can read   *)
(* (salt, nonce, IV, plaintext) carry their value in v; a byte produced by *)
(* AES carries what it was computed from: the derived key, the nonce or IV *)
(* and the plaintext byte (a ciphertext byte) or the whole plaintext (a    *)
(* tag byte).  PBKDF2 is the pair (password bytes, salt).  Base64 text is  *)
(* the byte string it encodes, wrapped.                                    *)
(***************************************************************************)
SaltLen == 16

NonceSize == 16

TagSize == 16

BlockSize == 16

\* a readable byte (salt, nonce, IV)
RawByte(x) == [t |-> "raw", v |-> x, key |-> <<>>, nonce |-> <<>>, msg |-> <<>>]

RawBytes(xs) == [i \in DOMAIN xs |-> RawByte(xs[i])]

\* the values of a byte string; a byte that came out of AES reads as -1
Values(bs) == [i \in DOMAIN bs |-> IF bs[i].t = "raw" THEN bs[i].v ELSE -1]

\* byte i of the AES encryption of plaintext byte x under (key, nonce)
CipherByte(x, key, nonce, i) ==
    [t |-> "enc", v |-> x, key |-> key, nonce |-> <<i>> \o Values(nonce), msg |-> <<>>]

\* byte i of the GCM tag of message m under (key, nonce)
TagByte(key, nonce, m, i) ==
    [t |-> "tag", v |-> i, key |-> key, nonce |-> Values(nonce), msg |-> m]

\* Python's data[a:b] for 0 <= a and 0 <= b
Slice(data, a, b) == SubSeq(data, a + 1, Min(b, Len(data)))

\* Python's data[a:-n] for 0 <= a and n > 0
SliceToEnd(data, a, n) == SubSeq(data, a + 1, Len(data) - n)

\* Python's data[-n:] for n > 0
LastBytes(data, n) == SubSeq(data, Max(1, Len(data) - n + 1), Len(data))

\* base64.b64encode(...).decode('utf-8') and base64.b64decode
B64Encode(data) == [b64 |-> data]

B64Decode(text) == text.b64

\* _bits_to_bytes: zero padding to a multiple of 8, least significant bit first
BitsToBytes(bits) ==
    LET padded == IF Len(bits) % 8 # 0
                  THEN bits \o [i \in 1..(8 - (Len(bits) % 8)) |-> 0] ELSE bits
    IN [b \in 1..(Len(padded) \div 8) |->
           SumSeq([j \in 1..8 |-> padded[(b - 1) * 8 + j] * (2 ^ (j - 1))])]

\* derive_aes_key for a non-empty qkd_key: PBKDF2 as the pair (password, salt)
DeriveAesKey(qkd_key, salt) ==
    <<Len(BitsToBytes(qkd_key))>> \o BitsToBytes(qkd_key) \o Values(salt)

\* AES.new(key, AES.MODE_CTR, nonce=nonce): PyCryptodome refuses a nonce that
\* leaves no room for the counter in the 16-byte block
CtrNonceAccepted(nonce) == Len(nonce) < BlockSize

\* Crypto.Util.Padding.pad(message, 16) (PKCS7)
Pad(m) ==
    LET n == BlockSize - (Len(m) % BlockSize) IN m \o [i \in 1..n |-> n]

\* Crypto.Util.Padding.unpad: the padded text, or a failure
Unpad(p) ==
    IF Len(p) = 0 \/ Len(p) % BlockSize # 0 THEN [raised |-> TRUE, text |-> <<>>]
    ELSE LET n == p[Len(p)]
         IN IF n < 1 \/ n > BlockSize
               \/ \E i \in (Len(p) - n + 1)..Len(p) : p[i] # n
            THEN [raised |-> TRUE, text |-> <<>>]
            ELSE [raised |-> FALSE, text |-> SubSeq(p, 1, Len(p) - n)]

\* the AES stream or block encryption of plaintext bytes under (key, nonce)
Encipher(m, key, nonce) == [i \in DOMAIN m |-> CipherByte(m[i], key, nonce, i)]

\* its inverse: the plaintext if every byte was produced under (key, nonce) at
\* its position; any other input deciphers to bytes that are not the message
Decipher(data, key, nonce) ==
    IF \A i \in DOMAIN data : data[i] = CipherByte(data[i].v, key, nonce, i)
    THEN [raised |-> FALSE, text |-> [i \in DOMAIN data |-> data[i].v]]
    ELSE [raised |-> TRUE, text |-> <<>>]

\* _decrypt_gcm: AES.new(key, MODE_GCM, nonce) refuses an empty nonce, and
\* decrypt_and_verify refuses a tag that was not computed from (key, nonce, data)
DecryptGcm(data, nonce, tag, key) ==
    LET plain == Decipher(data, key, nonce)
    IN IF nonce = <<>> \/ plain.raised
          \/ tag # [i \in 1..TagSize |-> TagByte(key, nonce, plain.text, i)]
       THEN [raised |-> TRUE, text |-> <<>>]
       ELSE plain

\* _decrypt_cbc: AES.new(key, MODE_CBC, iv) refuses an IV that is not 16 bytes
DecryptCbc(data, iv, key) ==
    LET plain == Decipher(data, key, iv)
    IN IF Len(iv) # BlockSize \/ plain.raised THEN [raised |-> TRUE, text |-> <<>>]
       ELSE Unpad(plain.text)

\* _decrypt_ctr
DecryptCtr(data, nonce, key) ==
    IF ~CtrNonceAccepted(nonce) THEN [raised |-> TRUE, text |-> <<>>]
    ELSE Decipher(data, key, nonce)

\* decrypt_message: [raised, text]; any exception is re-raised as ValueError
DecryptMessage(mode, encrypted_message, qkd_key) ==
    LET encrypted_data == B64Decode(encrypted_message)
        salt_used == Slice(encrypted_data, 0, SaltLen)
        aes_key == DeriveAesKey(qkd_key, salt_used)
        second == Slice(encrypted_data, SaltLen, SaltLen + NonceSize)
    IN IF qkd_key = <<>> THEN [raised |-> TRUE, text |-> <<>>]
       ELSE CASE mode = "GCM" ->
                   DecryptGcm(SliceToEnd(encrypted_data, SaltLen + NonceSize, TagSize),
                              second, LastBytes(encrypted_data, TagSize), aes_key)
              [] mode = "CBC" ->
                   DecryptCbc(Slice(encrypted_data, SaltLen + NonceSize, Len(encrypted_data)),
                              second, aes_key)
              [] mode = "CTR" ->
                   DecryptCtr(Slice(encrypted_data, SaltLen + NonceSize, Len(encrypted_data)),
                              second, aes_key)

\* the AESDemoResult of the except branch of encrypt_message
EncryptionFailed(message) ==
    [original_message |-> message, encrypted_message |-> B64Encode(<<>>),
     decrypted_message |-> <<>>, encryption_success |-> FALSE,
     decryption_success |-> FALSE]

\* encrypt_message with the random salt and nonce/IV that were drawn
EncryptMessage(mode, message, qkd_key, salt, nonce) ==
    IF qkd_key = <<>> THEN EncryptionFailed(message)
    ELSE IF mode = "CTR" /\ ~CtrNonceAccepted(nonce) THEN EncryptionFailed(message)
    ELSE
      LET aes_key == DeriveAesKey(qkd_key, salt)
          encrypted_message ==
              CASE mode = "GCM" ->
                     B64Encode(salt \o nonce \o Encipher(message, aes_key, nonce)
                               \o [i \in 1..TagSize |-> TagByte(aes_key, nonce, message, i)])
                [] mode = "CBC" ->
                     B64Encode(salt \o nonce \o Encipher(Pad(message), aes_key, nonce))
                [] mode = "CTR" ->
                     B64Encode(salt \o nonce \o Encipher(message, aes_key, nonce))
          decrypted == DecryptMessage(mode, encrypted_message, qkd_key)
      IN IF decrypted.raised THEN EncryptionFailed(message)
         ELSE [original_message |-> message, encrypted_message |-> encrypted_message,
               decrypted_message |-> decrypted.text, encryption_success |-> TRUE,
               decryption_success |-> (decrypted.text = message)]

\* secrets.token_bytes(16) and the 16-byte nonce PyCryptodome draws for GCM:
\* two representatives of the 2^128 values
TokenBytes == {RawBytes([i \in 1..SaltLen |-> c]) : c \in {7, 9}}

\* the messages, as UTF-8 bytes: "", "h", "hi", and one of 17 bytes
AesMessages == {<<>>, <<104>>, <<104, 105>>, [i \in 1..(BlockSize + 1) |-> 97]}

\* the QKD bit lists: empty, shorter than a byte, one byte and more
AesKeys == UNION {[1..n -> Bit] : n \in {0, 1, MaxQkdBits}}

AesIdle ==
    /\ aes_mode = "GCM"
    /\ aes_pc = "idle"
    /\ aes_message = <<>>
    /\ aes_qkd_key = <<>>
    /\ aes_result = EncryptionFailed(<<>>)
    /\ aes_decrypted = [raised |-> FALSE, text |-> <<>>]

\* QKDAESIntegration.__init__(aes_mode=...), with the arguments of the calls
InitAES ==
    /\ aes_mode \in {"GCM", "CBC", "CTR"}
    /\ aes_pc = "idle"
    /\ aes_message \in AesMessages
    /\ aes_qkd_key \in AesKeys
    /\ aes_result = EncryptionFailed(<<>>)
    /\ aes_decrypted = [raised |-> FALSE, text |-> <<>>]

\* a call encrypt_message(m, k)
CallEncryptMessage ==
    /\ aes_pc = "idle"
    /\ \E salt \in TokenBytes, nonce \in TokenBytes :
          aes_result' = EncryptMessage(aes_mode, aes_message, aes_qkd_key,
                                       salt, nonce)
    /\ aes_pc' = "encrypted"
    /\ UNCHANGED <<aes_mode, aes_message, aes_qkd_key, aes_decrypted>>
    /\ UNCHANGED aes_frame

\* a call decrypt_message(result.encrypted_message, k) on the same integration
CallDecryptMessage ==
    /\ aes_pc = "encrypted"
    /\ aes_decrypted' = DecryptMessage(aes_mode, aes_result.encrypted_message, aes_qkd_key)
    /\ aes_pc' = "decrypted"
    /\ UNCHANGED <<aes_mode, aes_message, aes_qkd_key, aes_result>>
    /\ UNCHANGED aes_frame

NextAES ==
    \/ CallEncryptMessage
    \/ CallDecryptMessage

\* C9: for each mode and every QKD bit list of at least 8 bits, decrypting the
\* blob returned by encrypt_message with the same bits on an integration of
\* the same mode returns the message.
C9_AesRoundTrip ==
    (aes_pc = "decrypted" /\ Len(aes_qkd_key) >= 8) =>
        (~aes_decrypted.raised /\ aes_decrypted.text = aes_message)

(***************************************************************************)
(* simulator.py: the per-user key cache of QKDSimulator.                   *)
(* run_simulation is represented here by what the cache code reads of its  *)
(* result, the final key of the sender; key lengths are scaled down (the   *)
(* code asks for 256 bits and simulates at least 2000 qubits), what is     *)
(* kept is how the final length compares with the requested length.        *)
(* Units of SimulationParameters: channel_length in 0.1 km,                *)
(* channel_attenuation in 0.01 dB/km, channel_depolarization in 1/10000,   *)
(* efficiencies in percent, wavelength in nm.                              *)
(***************************************************************************)
KeyExpiryTime == 3600

Users == {"alice", "bob"}

\* f"{user1_id}_{user2_id}_shared"
SharedId(user1_id, user2_id) == user1_id \o "_" \o user2_id \o "_shared"

\* ''.join(map(str, bits))
KeyString(bits) == [i \in DOMAIN bits |-> IF bits[i] = 0 THEN "0" ELSE "1"]

\* [int(bit) for bit in key]
KeyBits(key) == [i \in DOMAIN key |-> IF key[i] = "0" THEN 0 ELSE 1]

\* SimulationParameters._validate_parameters: TRUE when it raises nothing
ValidParameters(p) ==
    /\ ~(p.channel_length < 1 \/ p.channel_length > 3000)
    /\ ~(p.wavelength < 800 \/ p.wavelength > 1600)
    /\ ~(p.channel_attenuation < 5 \/ p.channel_attenuation > 100)
    /\ ~(p.detector_efficiency < 10 \/ p.detector_efficiency > 95)
    /\ ~(p.photon_source_efficiency < 50 \/ p.photon_source_efficiency > 95)

\* generate_quantum_key_for_user lines 582-596
KeyGenerationParameters(key_length) ==
    [num_qubits |-> Max(key_length * 50, 2000), channel_length |-> 20,
     channel_attenuation |-> 10, channel_depolarization |-> 10,
     photon_source_efficiency |-> 95, detector_efficiency |-> 95,
     wavelength |-> 1550]

\* generate_quantum_key_for_user lines 601-614
RetryParameters(key_length) ==
    [num_qubits |-> Max(key_length * 50, 2000) * 2, channel_length |-> 10,
     channel_attenuation |-> 1, channel_depolarization |-> 5,
     photon_source_efficiency |-> 98, detector_efficiency |-> 98,
     wavelength |-> 1550]

\* result.bb84_result.final_key_sender of a run_simulation: no qubit may be
\* sifted at all, so every length from 0 up can occur; two bit patterns stand
\* for the 2^n keys of each length n
SimulatedFinalKeys(p) ==
    {[i \in 1..n |-> (i + b) % 2] : n \in 0..MaxKeyBits, b \in Bit}

NoKeyData ==
    [key |-> <<>>, key_length |-> 0, generated_at |-> 0, expires_at |-> 0,
     security_level |-> 0, is_synthetic |-> FALSE, is_shared |-> FALSE,
     shared_with |-> ""]

Put(f, k, v) == [x \in DOMAIN f \cup {k} |-> IF x = k THEN v ELSE f[x]]

Remove(f, k) == [x \in DOMAIN f \ {k} |-> f[x]]

FailureResult == [success |-> FALSE, data |-> NoKeyData]

\* the synthetic key of lines 650-657: the available bits repeated and cut
SyntheticKey(final_key, key_length) ==
    LET available_bits == IF Len(final_key) = 0 THEN <<0, 1>> ELSE final_key
    IN KeyString([i \in 1..key_length |->
                    available_bits[((i - 1) % Len(available_bits)) + 1]])

\* generate_quantum_key_for_user lines 617-687, given the simulation it uses;
\* security_level in percent (a simulation without residual errors gives 100)
CacheGeneratedKey(qk, user_id, key_length, t, final_key) ==
    LET real == Len(final_key) >= key_length
        key_data ==
            [key |-> IF real THEN KeyString(Prefix(final_key, key_length))
                     ELSE SyntheticKey(final_key, key_length),
             key_length |-> key_length,
             generated_at |-> t,
             expires_at |-> t + KeyExpiryTime,
             security_level |-> IF real THEN 100 ELSE 85,
             is_synthetic |-> ~real,
             is_shared |-> FALSE,
             shared_with |-> ""]
    IN [keys |-> Put(qk, user_id, key_data),
        result |-> [success |-> TRUE, data |-> key_data]]

\* QKDSimulator.generate_quantum_key_for_user: the (cache, returned dict) pairs
\* it can end with.  A ValueError of SimulationParameters is caught by the
\* except clause of line 689.
GenerateQuantumKeyForUser(qk, user_id, key_length, t) ==
    IF ~ValidParameters(KeyGenerationParameters(key_length))
    THEN {[keys |-> qk, result |-> FailureResult]}
    ELSE UNION {
        IF Len(first) < key_length
        THEN (IF ValidParameters(RetryParameters(key_length))
              THEN {CacheGeneratedKey(qk, user_id, key_length, t, second) :
                       second \in SimulatedFinalKeys(RetryParameters(key_length))}
              ELSE {[keys |-> qk, result |-> FailureResult]})
        ELSE {CacheGeneratedKey(qk, user_id, key_length, t, first)}
        : first \in SimulatedFinalKeys(KeyGenerationParameters(key_length))}

\* a lookup that keeps expired entries and returns them
GetWithoutExpiry(qk, user_id, t) ==
    IF user_id \in DOMAIN qk
    THEN [keys |-> qk, found |-> TRUE, data |-> qk[user_id]]
    ELSE [keys |-> qk, found |-> FALSE, data |-> NoKeyData]

\* QKDSimulator.get_user_quantum_key
GetUserQuantumKey(qk, user_id, t) ==
    IF user_id \in DOMAIN qk
    THEN (IF t < qk[user_id].expires_at
          THEN [keys |-> qk, found |-> TRUE, data |-> qk[user_id]]
          ELSE [keys |-> Remove(qk, user_id), found |-> FALSE, data |-> NoKeyData])
    ELSE [keys |-> qk, found |-> FALSE, data |-> NoKeyData]

\* the entries generate_shared_quantum_key writes without the peer's id swapped
SharedEntriesOneWay(d, user1_id, user2_id, t) ==
    [first |-> [d EXCEPT !.generated_at = t, !.expires_at = t + KeyExpiryTime,
                   !.is_synthetic = FALSE, !.is_shared = TRUE,
                   !.shared_with = user2_id],
     second |-> [d EXCEPT !.generated_at = t, !.expires_at = t + KeyExpiryTime,
                   !.is_synthetic = FALSE, !.is_shared = TRUE,
                   !.shared_with = user2_id]]

\* the two entries of lines 762-784, built from the dict returned for the
\* "_shared" id; they carry no is_synthetic key
SharedEntries(d, user1_id, user2_id, t) ==
    [first |-> [d EXCEPT !.generated_at = t, !.expires_at = t + KeyExpiryTime,
                   !.is_synthetic = FALSE, !.is_shared = TRUE,
                   !.shared_with = user2_id],
     second |-> [d EXCEPT !.generated_at = t, !.expires_at = t + KeyExpiryTime,
                   !.is_synthetic = FALSE, !.is_shared = TRUE,
                   !.shared_with = user1_id]]

\* QKDSimulator.generate_shared_quantum_key
GenerateSharedQuantumKey(qk, user1_id, user2_id, key_length, t) ==
    {IF g.result.success
     THEN LET e == SharedEntries(g.result.data, user1_id, user2_id, t)
          IN [keys |-> Put(Put(g.keys, user1_id, e.first), user2_id, e.second),
              result |-> [success |-> TRUE, data |-> e.first]]
     ELSE [keys |-> g.keys, result |-> FailureResult]
     : g \in GenerateQuantumKeyForUser(qk, SharedId(user1_id, user2_id), key_length, t)}

(***************************************************************************)
(* secure_messaging_service.py and the calls made on the key cache.        *)
(***************************************************************************)
\* the text of the n-th message sent: "h", "i", ...
Plaintext(n) == <<103 + n>>

KeyLengths == {MaxKeyBits}

\* a call, its arguments and what it returned; evicted tells whether a lookup
\* deleted the entry it found
CallRecord(op, user, peer, key_length, message_id, success, data, text) ==
    [op |-> op, user |-> user, peer |-> peer, key_length |-> key_length,
     message_id |-> message_id, success |-> success, data |-> data, text |-> text,
     evicted |-> FALSE]

\* QKDSimulator.__init__ and SecureMessagingService.__init__
ServiceIdle ==
    /\ quantum_keys = <<>>
    /\ now = 0
    /\ messages = <<>>
    /\ message_counter = 0
    /\ last_call = CallRecord("none", "", "", 0, 0, FALSE, NoKeyData, <<>>)

\* time.time() moves on, past one key lifetime
Tick ==
    /\ now < MaxTicks * (KeyExpiryTime + 1)
    /\ now' = now + KeyExpiryTime + 1
    /\ UNCHANGED <<quantum_keys, messages, message_counter, last_call>>
    /\ UNCHANGED service_frame

\* a call generate_quantum_key_for_user(u, L)
CallGenerate ==
    /\ \E u \in Users, L \in KeyLengths :
       \E g \in GenerateQuantumKeyForUser(quantum_keys, u, L, now) :
          /\ quantum_keys' = g.keys
          /\ last_call' = CallRecord("generate", u, "", L, 0, g.result.success,
                                     g.result.data, <<>>)
    /\ UNCHANGED <<now, messages, message_counter>>
    /\ UNCHANGED service_frame

\* a call get_user_quantum_key(u)
CallGet ==
    /\ \E u \in Users :
          LET got == GetUserQuantumKey(quantum_keys, u, now)
          IN /\ quantum_keys' = got.keys
             /\ last_call' =
                   [CallRecord("get", u, "", 0, 0, got.found, got.data, <<>>)
                       EXCEPT !.evicted = (got.keys # quantum_keys)]
    /\ UNCHANGED <<now, messages, message_counter>>
    /\ UNCHANGED service_frame

\* a call refresh_user_quantum_key(u, L): delete, then generate
CallRefresh ==
    /\ \E u \in Users, L \in KeyLengths :
       \E g \in GenerateQuantumKeyForUser(Remove(quantum_keys, u), u, L, now) :
          /\ quantum_keys' = g.keys
          /\ last_call' = CallRecord("refresh", u, "", L, 0, g.result.success,
                                     g.result.data, <<>>)
    /\ UNCHANGED <<now, messages, message_counter>>
    /\ UNCHANGED service_frame

\* a call generate_shared_quantum_key(u1, u2, L) for two different users
CallGenerateShared ==
    /\ \E u1 \in Users, L \in KeyLengths :
       \E u2 \in Users \ {u1} :
       \E g \in GenerateSharedQuantumKey(quantum_keys, u1, u2, L, now) :
          /\ quantum_keys' = g.keys
          /\ last_call' = CallRecord("generate_shared", u1, u2, L, 0, g.result.success,
                                     g.result.data, <<>>)
    /\ UNCHANGED <<now, messages, message_counter>>
    /\ UNCHANGED service_frame

\* C5: every call generate_quantum_key_for_user(u, L) ends with a cache entry
\* for u that holds exactly L key bits and expires key_expiry_time after its
\* generation, whatever the simulations produced.
C5_GenerateAlwaysCaches ==
    last_call.op = "generate" =>
        /\ last_call.user \in DOMAIN quantum_keys
        /\ Len(quantum_keys[last_call.user].key) = last_call.key_length
        /\ quantum_keys[last_call.user].expires_at =
              quantum_keys[last_call.user].generated_at + KeyExpiryTime

\* C6: a get_user_quantum_key(u) made after the entry's expires_at has passed
\* returns no key and removes u's entry; made while now < expires_at it
\* returns the entry and leaves the cache as it was.
C6_GetHonoursExpiry ==
    [][(last_call'.op = "get" /\ now' = now /\ last_call'.user \in DOMAIN quantum_keys) =>
          LET u == last_call'.user
          IN /\ now > quantum_keys[u].expires_at =>
                   /\ ~last_call'.success
                   /\ last_call'.data = NoKeyData
                   /\ u \notin DOMAIN quantum_keys'
             /\ now < quantum_keys[u].expires_at =>
                   /\ last_call'.success
                   /\ last_call'.data = quantum_keys[u]
                   /\ quantum_keys' = quantum_keys]_vars

\* a lookup evicted an entry whose expiry had passed, next to a live entry
C6_Witness ==
    /\ last_call.op = "get"
    /\ last_call.evicted
    /\ ~last_call.success
    /\ last_call.user \notin DOMAIN quantum_keys
    /\ \E v \in Users : v \in DOMAIN quantum_keys /\ now < quantum_keys[v].expires_at

\* C7: after a successful generate_shared_quantum_key(u1, u2, L) with
\* u1 # u2 the entries of u1 and u2 hold the same key bits, both have
\* is_shared, and each names the other in shared_with.
C7_SharedKeyMutual ==
    (last_call.op = "generate_shared" /\ last_call.success
        /\ last_call.user # last_call.peer) =>
        LET u1 == last_call.user
            u2 == last_call.peer
        IN /\ u1 \in DOMAIN quantum_keys /\ u2 \in DOMAIN quantum_keys
           /\ quantum_keys[u1].key = quantum_keys[u2].key
           /\ quantum_keys[u1].is_shared /\ quantum_keys[u2].is_shared
           /\ quantum_keys[u1].shared_with = u2
           /\ quantum_keys[u2].shared_with = u1

\* a shared key of the requested length was stored for two different users
C7_Witness ==
    /\ last_call.op = "generate_shared"
    /\ last_call.success
    /\ last_call.user # last_call.peer
    /\ Len(quantum_keys[last_call.user].key) = MaxKeyBits
    /\ quantum_keys[last_call.peer].shared_with = last_call.user

\* send_secure_message lines 60-68 and 70-78: the cached key of a user, or a
\* freshly generated one
KeyFor(qk, user_id, key_length, t) ==
    LET got == GetUserQuantumKey(qk, user_id, t)
    IN IF got.found THEN {[keys |-> got.keys, success |-> TRUE, data |-> got.data]}
       ELSE {IF g.result.success
             THEN LET again == GetUserQuantumKey(g.keys, user_id, t)
                  IN [keys |-> again.keys, success |-> again.found, data |-> again.data]
             ELSE [keys |-> g.keys, success |-> FALSE, data |-> NoKeyData]
             : g \in GenerateQuantumKeyForUser(got.keys, user_id, key_length, t)}

\* send_secure_message lines 60-91: the cache it leaves and the key it picks
ChooseMessageKey(qk, sender_id, receiver_id, key_length, t) ==
    UNION {
      IF ~a.success THEN {[keys |-> a.keys, success |-> FALSE, key |-> <<>>]}
      ELSE UNION {
        IF ~b.success THEN {[keys |-> b.keys, success |-> FALSE, key |-> <<>>]}
        ELSE IF a.data.is_shared /\ a.data.shared_with = receiver_id
        THEN {[keys |-> b.keys, success |-> TRUE, key |-> a.data.key]}
        ELSE IF b.data.is_shared /\ b.data.shared_with = sender_id
        THEN {[keys |-> b.keys, success |-> TRUE, key |-> b.data.key]}
        ELSE {IF sh.result.success
              THEN LET got == GetUserQuantumKey(sh.keys, sender_id, t)
                   IN [keys |-> got.keys, success |-> got.found, key |-> got.data.key]
              ELSE [keys |-> sh.keys, success |-> FALSE, key |-> <<>>]
              : sh \in GenerateSharedQuantumKey(b.keys, sender_id, receiver_id,
                                                key_length, t)}
        : b \in KeyFor(a.keys, receiver_id, key_length, t)}
      : a \in KeyFor(qk, sender_id, key_length, t)}

\* SecureMessagingService.send_secure_message; the service's QKDAESIntegration
\* is built with the default mode GCM
SendSecureMessage ==
    /\ message_counter < MaxMessages
    /\ \E sender_id \in Users, L \in KeyLengths :
       \E receiver_id \in Users \ {sender_id} :
       \E k \in ChooseMessageKey(quantum_keys, sender_id, receiver_id, L, now) :
       \E salt \in {b \in TokenBytes : b[1].v = 7} :
          LET message == Plaintext(message_counter + 1)
              enc == EncryptMessage("GCM", message, KeyBits(k.key), salt, salt)
              sent == k.success /\ enc.encryption_success
              message_id == message_counter + 1
          IN /\ quantum_keys' = k.keys
             /\ message_counter' = IF sent THEN message_id ELSE message_counter
             /\ messages' =
                   IF sent
                   THEN Put(messages, message_id,
                            [message_id |-> message_id, sender_id |-> sender_id,
                             receiver_id |-> receiver_id, original_message |-> message,
                             encrypted_message |-> enc.encrypted_message,
                             timestamp |-> now, status |-> "sent"])
                   ELSE messages
             /\ last_call' = CallRecord("send", sender_id, receiver_id, L,
                                        IF sent THEN message_id ELSE 0, sent,
                                        NoKeyData, <<>>)
    /\ UNCHANGED now
    /\ UNCHANGED service_frame

\* a receive that marks the message delivered before it checks anything
ReceiveOutcomeUnchecked(qk, msgs, receiver_id, message_id, t) ==
    [keys |-> qk, success |-> message_id \in DOMAIN msgs, text |-> <<>>,
     messages |-> IF message_id \in DOMAIN msgs
                  THEN [msgs EXCEPT ![message_id].status = "delivered"] ELSE msgs]

\* SecureMessagingService.receive_secure_message
ReceiveOutcome(qk, msgs, receiver_id, message_id, t) ==
    IF message_id \notin DOMAIN msgs
    THEN [keys |-> qk, success |-> FALSE, text |-> <<>>, messages |-> msgs]
    ELSE IF msgs[message_id].receiver_id # receiver_id
    THEN [keys |-> qk, success |-> FALSE, text |-> <<>>, messages |-> msgs]
    ELSE LET got == GetUserQuantumKey(qk, receiver_id, t)
             dec == DecryptMessage("GCM", msgs[message_id].encrypted_message,
                                   KeyBits(got.data.key))
         IN IF ~got.found \/ dec.raised
            THEN [keys |-> got.keys, success |-> FALSE, text |-> <<>>, messages |-> msgs]
            ELSE [keys |-> got.keys, success |-> TRUE, text |-> dec.text,
                  messages |-> [msgs EXCEPT ![message_id].status = "delivered"]]

\* a call receive_secure_message(r, id)
ReceiveSecureMessage ==
    /\ \E receiver_id \in Users, message_id \in 1..MaxMessages :
          LET out == ReceiveOutcome(quantum_keys, messages, receiver_id, message_id, now)
          IN /\ quantum_keys' = out.keys
             /\ messages' = out.messages
             /\ last_call' = CallRecord("receive", receiver_id, "", 0, message_id,
                                        out.success, NoKeyData, out.text)
    /\ UNCHANGED <<now, message_counter>>
    /\ UNCHANGED service_frame

\* C10: receive_secure_message(r, id) succeeds only for a stored message whose
\* receiver_id is r; it then returns the plaintext and marks that message
\* delivered.  For another caller, an unknown id or a receiver without an
\* unexpired key it fails, and a failed call (a failed decryption included)
\* leaves every stored message as it was.
C10_ReceiveChecksReceiver ==
    [][(last_call'.op = "receive" /\ now' = now) =>
          LET r == last_call'.user
              id == last_call'.message_id
          IN /\ last_call'.success =>
                   /\ id \in DOMAIN messages
                   /\ messages[id].receiver_id = r
                   /\ last_call'.text = messages[id].original_message
                   /\ messages' = [messages EXCEPT ![id].status = "delivered"]
             /\ ~last_call'.success =>
                   /\ last_call'.text = <<>>
                   /\ messages' = messages
             /\ (\/ id \notin DOMAIN messages
                 \/ messages[id].receiver_id # r
                 \/ r \notin DOMAIN quantum_keys
                 \/ now >= quantum_keys[r].expires_at) => ~last_call'.success]_vars

\* the receiver of a stored message holds an unexpired key that no longer
\* decrypts it: the call failed and the message is still 'sent', next to
\* another message that was delivered
C10_Witness ==
    /\ last_call.op = "receive"
    /\ ~last_call.success
    /\ last_call.message_id \in DOMAIN messages
    /\ messages[last_call.message_id].receiver_id = last_call.user
    /\ messages[last_call.message_id].status = "sent"
    /\ last_call.user \in DOMAIN quantum_keys
    /\ now < quantum_keys[last_call.user].expires_at
    /\ \E other \in DOMAIN messages : messages[other].status = "delivered"

\* the calls on the key cache of a QKDSimulator
\* C22: a message recorded by send_secure_message(s, r, m) can be received by
\* r as long as r holds an unexpired cached key: receive_secure_message(r, id)
\* then returns m, whatever sends, refreshes and key generations happened in
\* between.
C22_RecordedMessageReceivable ==
    [][(/\ last_call'.op = "receive"
        /\ now' = now
        /\ last_call'.message_id \in DOMAIN messages
        /\ messages[last_call'.message_id].receiver_id = last_call'.user
        /\ last_call'.user \in DOMAIN quantum_keys
        /\ now < quantum_keys[last_call'.user].expires_at)
       => /\ last_call'.success
          /\ last_call'.text = messages[last_call'.message_id].original_message]_vars

\* C23: whenever the cache entry of a user a has is_shared with shared_with = b,
\* user b has an entry with is_shared, shared_with = a and the same key bits.
C23_SharedEntriesSymmetric ==
    \A a \in DOMAIN quantum_keys :
        quantum_keys[a].is_shared =>
            LET b == quantum_keys[a].shared_with
            IN /\ b \in DOMAIN quantum_keys
               /\ quantum_keys[b].is_shared
               /\ quantum_keys[b].shared_with = a
               /\ quantum_keys[b].key = quantum_keys[a].key

\* C27: generate_shared_quantum_key(u1, u2, L) changes only the entries of u1
\* and u2, creates or overwrites no entry under another id, and leaves the
\* whole cache unchanged when the generation fails.
C27_SharedKeyTouchesTwoEntries ==
    [][(last_call'.op = "generate_shared" /\ now' = now) =>
          /\ \A k \in (DOMAIN quantum_keys \cup DOMAIN quantum_keys')
                         \ {last_call'.user, last_call'.peer} :
                /\ k \in DOMAIN quantum_keys
                /\ k \in DOMAIN quantum_keys'
                /\ quantum_keys'[k] = quantum_keys[k]
          /\ ~last_call'.success => quantum_keys' = quantum_keys]_vars

NextCache ==
    \/ Tick
    \/ CallGenerate
    \/ CallGet
    \/ CallRefresh
    \/ CallGenerateShared

\* the calls on a SecureMessagingService, and the key refreshes of its users
NextMessaging ==
    \/ Tick
    \/ CallRefresh
    \/ SendSecureMessage
    \/ ReceiveSecureMessage

(***************************************************************************)
(* simulator.py: QKDSimulator.run_simulation, and the AttackDetector of     *)
(* attack_models.py.  execute_protocol is represented by the sifted keys   *)
(* it ends with (its steps are the BB84 actions above).  attack_parameters *)
(* strengths are in tenths.                                                *)
(***************************************************************************)
\* the sifted key lengths explored: no sifted bit at all, fewer than 8 bits,
\* 100 bits, and a key longer than the information bits of the LDPC code
SimKeyLengths == {0, 5, 100, 1000}

\* where the receiver's sifted key differs from the sender's (0-based)
ErrorSets(n) ==
    IF n <= 100
    THEN {{}, {i \in 0..(n - 1) : i % 20 = 0}, {i \in 0..(n - 1) : i % 4 = 0},
          {i \in 0..(n - 1) : i % 2 = 0}, {i \in 0..(n - 1) : i < n \div 4}}
    ELSE {{}, {i \in 0..(n - 1) : i % 100 = 0}, {i \in 0..(n - 1) : i % 10 = 0}}

\* the sifted key pairs an execute_protocol run can end with
SiftedKeyPairs ==
    UNION {{[sender |-> [i \in 1..n |-> i % 2],
             receiver |-> [i \in 1..n |->
                              IF (i - 1) \in E THEN 1 - (i % 2) ELSE i % 2]] :
              E \in ErrorSets(n)} : n \in SimKeyLengths}

\* the SimulationParameters explored; attack_parameters None becomes {} in
\* __post_init__, a dict can lack 'strength'; a method is varied where its
\* flag makes run_simulation read it, and is the default elsewhere
SimParameterSets ==
    {p \in [use_advanced_reconciliation : BOOLEAN,
            use_advanced_privacy_amplification : BOOLEAN,
            reconciliation_method : {"cascade", "ldpc", "hybrid"},
            privacy_amplification_method : {"toeplitz", "universal", "hybrid"},
            attack_type : {"no_attack", "intercept_resend"},
            attack_parameters :
                {NoAttackParameters,
                 [present |-> TRUE, has_strength |-> FALSE, strength |-> 0],
                 [present |-> TRUE, has_strength |-> TRUE, strength |-> 2],
                 [present |-> TRUE, has_strength |-> TRUE, strength |-> 5],
                 [present |-> TRUE, has_strength |-> TRUE, strength |-> 15]}] :
        /\ ~p.use_advanced_reconciliation => p.reconciliation_method = "cascade"
        /\ ~p.use_advanced_privacy_amplification
              => p.privacy_amplification_method = "toeplitz"}

NoDetection ==
    [attack_detected |-> FALSE, attack_type |-> "None", confidence |-> Rate(0, 1)]

SimIdle ==
    /\ sim_pc = "none"
    /\ parameters = [use_advanced_reconciliation |-> TRUE,
                     use_advanced_privacy_amplification |-> TRUE,
                     reconciliation_method |-> "cascade",
                     privacy_amplification_method |-> "toeplitz",
                     attack_type |-> "no_attack",
                     attack_parameters |-> NoAttackParameters]
    /\ sim_bb84_result = [returned |-> FALSE]
    /\ attack_detection = NoDetection

\* a call run_simulation(parameters)
InitSim ==
    /\ sim_pc = "start"
    /\ parameters \in SimParameterSets
    /\ sim_bb84_result = [returned |-> FALSE]
    /\ attack_detection = NoDetection


\* run_simulation lines 182-194: the BB84Result of execute_protocol for the
\* sifted keys it ended with (bb84_protocol.py lines 282-335).  The built-in
\* reconciliation leaves the sender's key as it is and the built-in privacy
\* amplification reads the sender's key only, so the final keys do not depend
\* on which errors random.sample picked.  Keys of more than 100 bits are
\* explored where no Cascade pass follows (the shuffles of Cascade are
\* tabulated up to 100 positions).
SimExecuteProtocol ==
    /\ sim_pc = "start"
    /\ \E k \in SiftedKeyPairs :
          /\ Len(k.sender) > 100 =>
                \/ ~parameters.use_advanced_reconciliation
                \/ parameters.reconciliation_method = "ldpc"
          /\ LET errors == ErrorPositions(k.sender, k.receiver)
                 pa == PerformPrivacyAmplification(k.sender, k.receiver)
                 final_s == GenerateFinalKey(k.sender, pa)
                 final_r == GenerateFinalKey(k.receiver, pa)
             IN sim_bb84_result' =
                   [returned |-> TRUE,
                    sifted_key_length |-> Len(k.sender),
                    final_key_length |-> Len(final_s),
                    qber |-> CalculateQber(final_s, final_r),
                    sifted_qber |-> IF Len(k.sender) > 0
                                    THEN Rate(Len(errors), Len(k.sender))
                                    ELSE Rate(0, 1),
                    error_positions |-> errors,
                    sifted_key_sender |-> k.sender,
                    sifted_key_receiver |-> k.receiver,
                    final_key_sender |-> final_s,
                    final_key_receiver |-> final_r]
    /\ sim_pc' = "executed"
    /\ UNCHANGED <<parameters, attack_detection>>
    /\ UNCHANGED cascade_vars
    /\ UNCHANGED sim_frame

\* run_simulation line 196 with use_advanced_reconciliation false
SimSkipReconciliation ==
    /\ sim_pc = "executed"
    /\ ~parameters.use_advanced_reconciliation
    /\ sim_pc' = "reconciled"
    /\ UNCHANGED <<parameters, sim_bb84_result, attack_detection>>
    /\ UNCHANGED cascade_vars
    /\ UNCHANGED sim_frame

\* LDPCCodes.__init__: the default code_length; with the default code_rate
\* 0.5 half of the codeword are information bits
LdpcCodeLength == 1024

\* AdvancedReconciliation._pad_for_ldpc: a key of at most info_bits bits is
\* padded with random bits (the paddings explored are all 0 and all 1), a
\* longer key is cut to its first info_bits bits
PadForLdpc(key) ==
    LET info_bits == LdpcCodeLength \div 2
    IN IF Len(key) <= info_bits
       THEN {key \o [k \in 1..(info_bits - Len(key)) |-> b] : b \in Bit}
       ELSE {Prefix(key, info_bits)}

\* LDPCCodes.decode of the transmitted codeword of encode: the decoded
\* information bits.  The channel flips and the belief propagation are random;
\* the outcomes explored are the information bits as sent and the information
\* bits with the first one decoded wrongly.
LdpcDecode(padded) == {padded, [padded EXCEPT ![1] = 1 - @]}

\* AdvancedReconciliation._ldpc_reconcile for a non-empty sender key (an empty
\* one makes success_rate divide by zero): the ReconciliationResults it can
\* return
LdpcReconcile(ks, kr) ==
    {LET final_sender == Prefix(decoded_info, Len(ks))
         errors == Len(ErrorPositions(final_sender, kr))
     IN [corrected_key_sender |-> final_sender,
         corrected_key_receiver |-> kr,
         success_rate |-> Rate(Len(ks) - errors, Len(ks)),
         final_key_length |-> Len(final_sender)] :
        decoded_info \in UNION {LdpcDecode(padded) : padded \in PadForLdpc(ks)}}

\* _apply_advanced_reconciliation lines 266-275: bb84_result with the keys,
\* the length and the qber of a ReconciliationResult
WithReconciliation(result, reconciliation_result) ==
    [result EXCEPT
        !.sifted_key_sender = reconciliation_result.corrected_key_sender,
        !.sifted_key_receiver = reconciliation_result.corrected_key_receiver,
        !.sifted_key_length = reconciliation_result.final_key_length,
        !.qber = IF reconciliation_result.final_key_length > 0
                 THEN Rate(Len(ErrorPositions(reconciliation_result.corrected_key_sender,
                                              reconciliation_result.corrected_key_receiver)),
                           reconciliation_result.final_key_length)
                 ELSE @]

\* _apply_advanced_reconciliation with reconciliation_method "ldpc": the
\* except clause keeps bb84_result as it was when _ldpc_reconcile raises
SimLdpcReconcile ==
    /\ sim_pc = "executed"
    /\ parameters.use_advanced_reconciliation
    /\ parameters.reconciliation_method = "ldpc"
    /\ IF Len(sim_bb84_result.sifted_key_sender) = 0
       THEN sim_bb84_result' = sim_bb84_result
       ELSE \E r \in LdpcReconcile(sim_bb84_result.sifted_key_sender,
                                   sim_bb84_result.sifted_key_receiver) :
               sim_bb84_result' = WithReconciliation(sim_bb84_result, r)
    /\ sim_pc' = "reconciled"
    /\ UNCHANGED <<parameters, attack_detection>>
    /\ UNCHANGED cascade_vars
    /\ UNCHANGED sim_frame

\* _apply_advanced_reconciliation lines 260-264 with reconciliation_method
\* "cascade" or "hybrid": a new CascadeProtocol and the call of its reconcile
\* on the sifted keys
SimCallReconcile ==
    /\ sim_pc = "executed"
    /\ parameters.use_advanced_reconciliation
    /\ parameters.reconciliation_method \in {"cascade", "hybrid"}
    /\ cascade' = DefaultCascade
    /\ cascade_pc' = "idle"
    /\ key_sender' = sim_bb84_result.sifted_key_sender
    /\ key_receiver' = sim_bb84_result.sifted_key_receiver
    /\ sim_pc' = "reconciling"
    /\ UNCHANGED <<corrected_sender, corrected_receiver, revealed_positions,
                   error_positions, block_size, round_num, rounds_completed,
                   bits_revealed, cascade_result>>
    /\ UNCHANGED <<parameters, sim_bb84_result, attack_detection>>
    /\ UNCHANGED sim_frame

\* AdvancedReconciliation._hybrid_reconcile after its Cascade pass: the LDPC
\* pass on the Cascade keys when the Cascade success_rate is below 0.95
HybridReconcile(cascade_res) ==
    IF cascade_res.success_rate.num * 100 < 95 * cascade_res.success_rate.den
    THEN LdpcReconcile(cascade_res.corrected_key_sender,
                       cascade_res.corrected_key_receiver)
    ELSE {cascade_res}

\* _apply_advanced_reconciliation lines 266-289, once reconcile has returned
\* or raised (the except clause keeps bb84_result as it was)
SimApplyReconciliation ==
    /\ sim_pc = "reconciling"
    /\ cascade_pc \in {"done", "raised"}
    /\ IF cascade_pc = "raised" THEN sim_bb84_result' = sim_bb84_result
       ELSE \E r \in (IF parameters.reconciliation_method = "hybrid"
                      THEN HybridReconcile(cascade_result)
                      ELSE {cascade_result}) :
               sim_bb84_result' = WithReconciliation(sim_bb84_result, r)
    /\ sim_pc' = "reconciled"
    /\ UNCHANGED <<parameters, attack_detection>>
    /\ UNCHANGED cascade_vars
    /\ UNCHANGED sim_frame

\* AdvancedPrivacyAmplification._calculate_secure_output_length with the
\* default security_parameter 0.1: the entropy of a bit list is at most 1, so
\* int(entropy - log2(10)) is negative whatever the random factor, and the
\* result is min_length
SecureOutputLength(input_length) ==
    IF input_length < 100 THEN Max(8, input_length \div 10)
    ELSE IF input_length < 500 THEN Max(32, input_length \div 15)
    ELSE Max(32, input_length \div 25)

\* AdvancedPrivacyAmplification.__init__: the default output_length of both
\* hash functions
HashOutputLength == 256

\* ToeplitzHashing.__init__: the default seed_length, in bits
ToeplitzSeedLength == 512

\* ToeplitzHashing.generate_seed: the seed bits in the order
\* build_toeplitz_matrix unpacks them; the seeds explored are the bytes 0xFF
\* and the bytes 0x55
ToeplitzSeeds ==
    {[k \in 0..(ToeplitzSeedLength - 1) |-> 1],
     [k \in 0..(ToeplitzSeedLength - 1) |-> (k + 1) % 2]}

\* ToeplitzHashing.hash_key: row i (0-based) of (toeplitz_matrix @ input) % 2,
\* where toeplitz_matrix[i, j] = seed_bits[(i + j) % len(seed_bits)]
ToeplitzBit(seed_bits, input_key, i) ==
    Cardinality({j \in 0..(Len(input_key) - 1) :
                    seed_bits[(i + j) % ToeplitzSeedLength] * input_key[j + 1] = 1}) % 2

\* UniversalHashing.generate_hash_parameters for the polynomial family over
\* a field of size 2: degree + 1 random coefficients; the ones explored are
\* all 1 and alternating
PolynomialCoefficients(input_length) ==
    {[j \in 0..Min(input_length - 1, 10) |-> 1],
     [j \in 0..Min(input_length - 1, 10) |-> j % 2]}

\* UniversalHashing._polynomial_hash: output bit i (0-based), the sum of
\* coeff * input_key[j] * i ** j over the coefficients with j < len(input_key),
\* modulo 2 (i ** j is odd exactly when j = 0 or i is odd)
PolynomialBit(coefficients, input_key, i) ==
    Cardinality({j \in DOMAIN coefficients :
                    /\ j < Len(input_key)
                    /\ coefficients[j] * input_key[j + 1]
                          * (IF j = 0 THEN 1 ELSE i % 2) = 1}) % 2

\* amplify_privacy lines 306-318: bit i (0-based) of the hash of the method
HashBit(method, seed_bits, coefficients, input_key, i) ==
    IF method = "toeplitz" THEN ToeplitzBit(seed_bits, input_key, i)
    ELSE IF method = "universal" THEN PolynomialBit(coefficients, input_key, i)
    ELSE (ToeplitzBit(seed_bits, input_key, i)
          + PolynomialBit(coefficients, input_key, i)) % 2

\* AdvancedPrivacyAmplification.amplify_privacy(input_key).final_key: nothing
\* for an empty key, else the hash of output_length bits cut or zero-padded
\* to the secure output length
AmplifyPrivacy(method, seed_bits, coefficients, input_key) ==
    IF Len(input_key) = 0 THEN <<>>
    ELSE [i \in 1..SecureOutputLength(Len(input_key)) |->
             IF i <= HashOutputLength
             THEN HashBit(method, seed_bits, coefficients, input_key, i - 1)
             ELSE 0]

\* Python's sorted() on a list of integers (repeated values are kept)
RECURSIVE Sorted(_)
Sorted(s) ==
    IF s = <<>> THEN <<>>
    ELSE LET k == CHOOSE i \in DOMAIN s : \A j \in DOMAIN s : s[i] <= s[j]
         IN <<s[k]>> \o Sorted(SubSeq(s, 1, k - 1) \o SubSeq(s, k + 1, Len(s)))

\* the clustering metric with an expected distance of 2 between errors:
\* max(0, 1 - avg_distance / 2)
ClusteringAgainstTwo(error_distribution) ==
    IF Len(error_distribution) < 2 THEN Rate(0, 1)
    ELSE LET sorted_errors == Sorted(error_distribution)
             distances == [k \in 1..(Len(sorted_errors) - 1) |->
                              sorted_errors[k + 1] - sorted_errors[k]]
         IN Rate(Max(0, 2 * Len(distances) - SumSeq(distances)), 2 * Len(distances))

\* AttackDetector._analyze_error_clustering: max(0, 1 - avg_distance), as the
\* fraction (len(distances) - sum(distances)) / len(distances)
AnalyzeErrorClustering(error_distribution) ==
    IF Len(error_distribution) < 2 THEN Rate(0, 1)
    ELSE LET sorted_errors == Sorted(error_distribution)
             distances == [k \in 1..(Len(sorted_errors) - 1) |->
                              sorted_errors[k + 1] - sorted_errors[k]]
         IN IF distances = <<>> THEN Rate(0, 1)
            ELSE Rate(Max(0, Len(distances) - SumSeq(distances)), Len(distances))

\* AttackDetector._classify_attack
ClassifyAttack(qber, error_distribution) ==
    LET clustering == AnalyzeErrorClustering(error_distribution)
    IN IF qber.num * 100 > 25 * qber.den THEN "intercept_resend"
       ELSE IF qber.num * 100 > 15 * qber.den /\ error_distribution # <<>>
       THEN (IF clustering.num * 10 > 3 * clustering.den
             THEN "photon_number_splitting" ELSE "intercept_resend")
       ELSE "unknown"

\* min and max of two fractions with positive denominators
MinRate(a, b) == IF a.num * b.den <= b.num * a.den THEN a ELSE b
MaxRate(a, b) == IF a.num * b.den >= b.num * a.den THEN a ELSE b

\* AttackDetector.detect_attack with the default thresholds: qber_threshold
\* 0.10, statistical_threshold 0.03, strength above 0.3
DetectAttack(qber, error_distribution, attack_parameters) ==
    LET clustering == AnalyzeErrorClustering(error_distribution)
        high_qber == qber.num * 100 > 10 * qber.den
        clustered == /\ Len(error_distribution) > 0
                     /\ clustering.num * 100 > 3 * clustering.den
        strong == /\ attack_parameters.present
                  /\ attack_parameters.has_strength
                  /\ attack_parameters.strength > 3
        attack_detected == high_qber \/ clustered \/ strong
        \* min(0.9, (qber - 0.10) / 0.05)
        c1 == IF high_qber
              THEN MinRate(Rate(9, 10), Rate(20 * qber.num - 2 * qber.den, qber.den))
              ELSE Rate(0, 1)
        c2 == IF clustered THEN MaxRate(c1, clustering) ELSE c1
        \* max(confidence, attack_strength), the strength in tenths
        c3 == IF strong THEN MaxRate(c2, Rate(attack_parameters.strength, 10)) ELSE c2
    IN [attack_detected |-> attack_detected,
        attack_type |-> IF attack_detected
                        THEN ClassifyAttack(qber, error_distribution) ELSE "None",
        confidence |-> c3]

\* run_simulation lines 199-243: the advanced privacy amplification (it
\* replaces the final keys), the detection on the qber, sifted_key_length and
\* error_positions of bb84_result, and the override for a simulated attack
SimDetectAndReturn ==
    /\ sim_pc = "reconciled"
    /\ IF parameters.use_advanced_privacy_amplification
       THEN \E seed_bits \in ToeplitzSeeds,
               coefficients \in PolynomialCoefficients(
                                   Len(sim_bb84_result.sifted_key_sender)) :
               LET sender_amplified ==
                       AmplifyPrivacy(parameters.privacy_amplification_method,
                                      seed_bits, coefficients,
                                      sim_bb84_result.sifted_key_sender)
                   receiver_amplified ==
                       AmplifyPrivacy(parameters.privacy_amplification_method,
                                      seed_bits, coefficients,
                                      sim_bb84_result.sifted_key_receiver)
               IN sim_bb84_result' =
                     [sim_bb84_result EXCEPT
                         !.final_key_sender = sender_amplified,
                         !.final_key_receiver = receiver_amplified,
                         !.final_key_length = Len(sender_amplified)]
       ELSE sim_bb84_result' = sim_bb84_result
    /\ LET detected == DetectAttack(sim_bb84_result.qber,
                                    sim_bb84_result.error_positions,
                                    parameters.attack_parameters)
       IN attack_detection' =
             IF /\ parameters.attack_type # "no_attack"
                /\ parameters.attack_parameters.present
                /\ StrengthOf(parameters.attack_parameters) > 3
             THEN [attack_detected |-> TRUE, attack_type |-> parameters.attack_type,
                   confidence |-> MinRate(Rate(9, 10),
                                          Rate(StrengthOf(parameters.attack_parameters), 10))]
             ELSE detected
    /\ sim_pc' = "done"
    /\ UNCHANGED parameters
    /\ UNCHANGED cascade_vars
    /\ UNCHANGED sim_frame

NextSim ==
    \/ SimExecuteProtocol
    \/ SimSkipReconciliation
    \/ SimLdpcReconcile
    \/ SimCallReconcile
    \/ ReconcileBegin
    \/ ReconcileRound
    \/ ReconcileReturn
    \/ ReconcileDivisionByZero
    \/ SimApplyReconciliation
    \/ SimDetectAndReturn

\* C17: the confidence in the attack_detection record of run_simulation, which
\* is the confidence detect_attack reported unless the simulated-attack
\* override replaced it, lies within [0, 1].
C17_ConfidenceInUnitInterval ==
    sim_pc = "done" =>
        /\ 0 <= attack_detection.confidence.num
        /\ attack_detection.confidence.num <= attack_detection.confidence.den

\* the attack_type the classification rule gives a detected attack
ClassifiedAs(qber, error_distribution) ==
    LET clustering == AnalyzeErrorClustering(error_distribution)
    IN IF qber.num * 100 > 25 * qber.den THEN "intercept_resend"
       ELSE IF /\ qber.num * 100 > 15 * qber.den
               /\ clustering.num * 10 > 3 * clustering.den
       THEN "photon_number_splitting"
       ELSE "intercept_resend"

\* C21: whenever detect_attack reports attack_detected, the attack_type is
\* intercept_resend for qber > 0.25, photon_number_splitting for
\* 0.15 < qber <= 0.25 with a clustering metric above 0.3, and
\* intercept_resend in every other detected case; "unknown" is never the type
\* of a detected attack.  (With attack_type NO_ATTACK the record returned by
\* run_simulation is the one detect_attack returned.)
C21_DetectedAttackClassified ==
    (/\ sim_pc = "done"
     /\ parameters.attack_type = "no_attack"
     /\ attack_detection.attack_detected)
    => attack_detection.attack_type
          = ClassifiedAs(sim_bb84_result.qber, sim_bb84_result.error_positions)

\* C25: in every result returned by run_simulation, final_key_sender and
\* final_key_receiver have the same length, and that length is
\* final_key_length, whatever the reconciliation method, the
\* privacy-amplification method and the sifted-key length.
C25_FinalKeysSameLength ==
    sim_pc = "done" =>
        /\ Len(sim_bb84_result.final_key_sender) = sim_bb84_result.final_key_length
        /\ Len(sim_bb84_result.final_key_receiver) = sim_bb84_result.final_key_length

\* C29: for a list of distinct integer error positions the clustering metric
\* is 0, so detect_attack does not raise the error-clustering indicator and
\* the attack is never classified as photon_number_splitting.
C29_DistinctPositionsNotClustered ==
    sim_pc = "done" =>
        /\ Cardinality(SeqToSet(sim_bb84_result.error_positions))
              = Len(sim_bb84_result.error_positions)
        /\ AnalyzeErrorClustering(sim_bb84_result.error_positions).num = 0
        /\ attack_detection.attack_type # "photon_number_splitting"

\* a detected attack on a result whose errors sit at neighbouring positions
\* and whose qber lies between 0.15 and 0.25
C29_Witness ==
    /\ sim_pc = "done"
    /\ parameters.attack_type = "no_attack"
    /\ attack_detection.attack_detected
    /\ Len(sim_bb84_result.error_positions) >= 2
    /\ \E k \in 1..(Len(sim_bb84_result.error_positions) - 1) :
          sim_bb84_result.error_positions[k + 1] = sim_bb84_result.error_positions[k] + 1
    /\ sim_bb84_result.qber.num * 100 > 15 * sim_bb84_result.qber.den
    /\ sim_bb84_result.qber.num * 100 <= 25 * sim_bb84_result.qber.den

\* C8: a run_simulation whose sifted keys have at least 100 bits and whose
\* sifted QBER is at least 0.25 returns attack_detected = true, whatever the
\* reconciliation and privacy-amplification settings and attack_parameters.
C8_HighSiftedQberDetected ==
    (/\ sim_pc = "done"
     /\ sim_bb84_result.sifted_qber.den >= 100
     /\ 4 * sim_bb84_result.sifted_qber.num >= sim_bb84_result.sifted_qber.den)
        => attack_detection.attack_detected

\* C11: in every result of run_simulation the two sifted keys have the same
\* length and sifted_key_length is that length.
C11_SiftedLengthsAgree ==
    sim_pc = "done" =>
        /\ Len(sim_bb84_result.sifted_key_sender) = Len(sim_bb84_result.sifted_key_receiver)
        /\ sim_bb84_result.sifted_key_length = Len(sim_bb84_result.sifted_key_sender)

\* C12: in every result of run_simulation, with the built-in or the advanced
\* privacy amplification and for every sifted-key length,
\* final_key_length <= sifted_key_length.
C12_FinalNotLongerThanSifted ==
    sim_pc = "done" =>
        sim_bb84_result.final_key_length <= sim_bb84_result.sifted_key_length

\* C13: in every result of run_simulation every element of error_positions
\* is an index i with 0 <= i < sifted_key_length of that result.
C13_ErrorPositionsInRange ==
    sim_pc = "done" =>
        \A k \in DOMAIN sim_bb84_result.error_positions :
            /\ 0 <= sim_bb84_result.error_positions[k]
            /\ sim_bb84_result.error_positions[k] < sim_bb84_result.sifted_key_length

(***************************************************************************)
(* quantum_states.py: a QuantumDetector whose detect_photon is called      *)
(* directly, with any qubit and at any time from the last detection on.    *)
(***************************************************************************)
MaxDetectorCalls == 3

MaxDetectorTicks == 3

\* the detection_history lengths a detector starts with: a new detector, one
\* detection, and the lengths around the limit of _record_detection
DetectorHistoryLengths == {0, 1, HistoryLimit - 1, HistoryLimit}

\* the time of the last detection made before the calls explored
DetectorEpoch == 2 * HistoryLimit

\* the detector after n detections made 2 microseconds apart, the last one at
\* DetectorEpoch (_record_detection on each of them; n <= HistoryLimit, so
\* nothing was cut)
DetectorAfter(n, dead_time) ==
    IF n = 0 THEN DetectorInit
    ELSE [is_dead |-> TRUE,
          dead_until |-> DetectorEpoch + dead_time,
          last_detection_time |-> DetectorEpoch,
          detection_history |-> [i \in 1..n |-> DetectorEpoch - 2 * (n - i)]]

\* QuantumDetector.__init__ arguments explored (the detector fields of a
\* configuration): dead_time 0 or 2 microseconds, with and without the noise
DetectorConfigs ==
    {IdealConfig, NoisyConfig,
     [IdealConfig EXCEPT !.detector_dead_time = 2],
     [NoisyConfig EXCEPT !.detector_dead_time = 0]}

\* the qubit argument of detect_photon
DetectorQubits == {"None", "Z0", "X1", "G"}

DetectorIdle ==
    /\ det_clock = 0
    /\ det_call = [called |-> FALSE]

InitDetector ==
    /\ cfg \in DetectorConfigs
    /\ \E n \in DetectorHistoryLengths : detector = DetectorAfter(n, cfg.detector_dead_time)
    /\ det_clock = DetectorEpoch
    /\ det_call = [called |-> FALSE, count |-> 0]

\* time passes between two calls
DetectorTick ==
    /\ det_clock < DetectorEpoch + MaxDetectorTicks
    /\ det_clock' = det_clock + 1
    /\ UNCHANGED <<det_call, cfg, detector>>
    /\ UNCHANGED <<pc, bases, bit_values, transmitted_qubits, measurement_bases,
                   measurement_results, detection_results, detection_info,
                   protocol_phases, bb84_result>>
    /\ UNCHANGED detector_frame

\* a call detect_photon(qubit, basis, current_time) with current_time = det_clock
CallDetectPhoton ==
    /\ det_call.count < MaxDetectorCalls
    /\ \E qubit \in DetectorQubits, basis \in BasisSet :
       \E out \in DetectPhoton(detector, cfg, qubit, det_clock) :
          /\ detector' = out.det
          /\ det_call' = [called |-> TRUE, count |-> det_call.count + 1,
                          qubit |-> qubit, basis |-> basis, time |-> det_clock,
                          before |-> detector,
                          detected |-> out.detected, kind |-> out.kind]
    /\ UNCHANGED <<det_clock, cfg>>
    /\ UNCHANGED <<pc, bases, bit_values, transmitted_qubits, measurement_bases,
                   measurement_results, detection_results, detection_info,
                   protocol_phases, bb84_result>>
    /\ UNCHANGED detector_frame

NextDetector ==
    \/ DetectorTick
    \/ CallDetectPhoton

\* t is what is left of s after a cut at its front
IsSuffix(t, s) ==
    /\ Len(t) <= Len(s)
    /\ t = SubSeq(s, Len(s) - Len(t) + 1, Len(s))

\* C18: a detect_photon call made while is_dead is set and the time is before
\* dead_until fails with dead_time_effect, whatever the qubit, and leaves
\* detection_history, is_dead, dead_until and last_detection_time as they
\* were: nothing is registered during the dead time.
C18_DeadTimeBlocksDetection ==
    (/\ det_call.called
     /\ det_call.before.is_dead
     /\ det_call.time < det_call.before.dead_until)
    => /\ ~det_call.detected
       /\ det_call.kind = "dead_time_effect"
       /\ detector = det_call.before

\* a call on a noisy detector during its dead time, with a qubit to detect
C18_Witness ==
    /\ det_call.called
    /\ det_call.before.is_dead
    /\ det_call.time < det_call.before.dead_until
    /\ det_call.qubit # "None"
    /\ cfg.detector_dark_count_rate > 0
    /\ det_call.kind = "dead_time_effect"

\* C19: detection_history never holds more than 1000 timestamps; a successful
\* detection (dark count, crosstalk, afterpulse or real) appends its time,
\* sets is_dead and sets dead_until to the time plus the dead time; a failed
\* detection changes nothing in the detector.
C19_HistoryBoundedAndRecorded ==
    /\ Len(detector.detection_history) <= HistoryLimit
    /\ det_call.called =>
          IF det_call.detected
          THEN /\ det_call.kind \in {"dark_count", "crosstalk", "afterpulse", "real"}
               /\ detector.detection_history # <<>>
               /\ IsSuffix(detector.detection_history,
                           Append(det_call.before.detection_history, det_call.time))
               /\ detector.is_dead
               /\ detector.dead_until = det_call.time + cfg.detector_dead_time
          ELSE detector = det_call.before

\* a detection recorded on a full history, which is then cut
C19_Witness ==
    /\ det_call.called
    /\ det_call.detected
    /\ Len(det_call.before.detection_history) = HistoryLimit
    /\ Len(detector.detection_history) = HistoryKeep
    /\ detector.detection_history[HistoryKeep] = det_call.time

(***************************************************************************)
(* simulator.py: SimulationParameters and QKDSimulator.run_parameter_sweep.*)
(* A SimulationParameters object is the record of its seven range-checked  *)
(* fields.  Units: channel_length in tenths of a kilometre,                *)
(* channel_attenuation in hundredths of a dB/km, wavelength in nanometres, *)
(* channel_depolarization in thousandths, efficiencies in percent.         *)
(***************************************************************************)
MaxDirectRuns == 1

MaxSweepDims == 2

\* the dataclass defaults
DefaultParameters ==
    [num_qubits |-> 1000, channel_length |-> 100, channel_attenuation |-> 10,
     wavelength |-> 1550, channel_depolarization |-> 10,
     photon_source_efficiency |-> 80, detector_efficiency |-> 80]

\* SimulationParameters._validate_parameters: TRUE when it raises no ValueError
ValidateParameters(p) ==
    /\ ~(p.channel_length < 1 \/ p.channel_length > 3000)
    /\ ~(p.wavelength < 800 \/ p.wavelength > 1600)
    /\ ~(p.channel_attenuation < 5 \/ p.channel_attenuation > 100)
    /\ ~(p.detector_efficiency < 10 \/ p.detector_efficiency > 95)
    /\ ~(p.photon_source_efficiency < 50 \/ p.photon_source_efficiency > 95)

\* the keyword arguments of SimulationParameters(...) explored
ConstructorArguments ==
    [num_qubits : {4, 8}, channel_length : {100, 4000}, channel_attenuation : {10},
     wavelength : {1310, 1550}, channel_depolarization : {10, 500},
     photon_source_efficiency : {80}, detector_efficiency : {80}]

\* the SimulationResult of run_simulation(p): its parameters field (the other
\* fields are those of the run_simulation model above)
RunSimulation(p) == [parameters |-> p]

\* the value lists a sweep dictionary can give to a parameter name
SweepValues(name) ==
    CASE name = "num_qubits" -> {<<>>, <<16>>, <<4, 16>>}
      [] name = "channel_depolarization" -> {<<>>, <<50>>, <<0, 500>>}
      [] name = "wavelength" -> {<<1310>>, <<700, 1550>>}

\* the sweep_parameters dictionaries explored, as their items in insertion
\* order: at most k names out of names
RECURSIVE SweepsOver(_, _)
SweepsOver(names, k) ==
    {<<>>} \cup
    (IF k = 0 THEN {}
     ELSE UNION {UNION {{<<[name |-> n, values |-> v]>> \o rest :
                           rest \in SweepsOver(names \ {n}, k - 1)} :
                        v \in SweepValues(n)} : n \in names})

Sweeps == SweepsOver({"num_qubits", "channel_depolarization", "wavelength"}, MaxSweepDims)

\* a Cartesian product in which the first list varies fastest
RECURSIVE FirstFastestProduct(_)
FirstFastestProduct(pools) ==
    IF pools = <<>> THEN <<<<>>>>
    ELSE LET rest  == FirstFastestProduct(Tail(pools))
             first == Head(pools)
         IN [k \in 1..(Len(rest) * Len(first)) |->
                <<first[((k - 1) % Len(first)) + 1]>> \o rest[((k - 1) \div Len(first)) + 1]]

\* itertools.product(*pools): result = [[]]; for each pool,
\* result = [x + [y] for x in result for y in pool]
RECURSIVE Product(_)
Product(pools) ==
    IF pools = <<>> THEN <<<<>>>>
    ELSE LET result == Product(SubSeq(pools, 1, Len(pools) - 1))
             pool   == pools[Len(pools)]
         IN [k \in 1..(Len(result) * Len(pool)) |->
                Append(result[((k - 1) \div Len(pool)) + 1], pool[((k - 1) % Len(pool)) + 1])]

\* QKDSimulator._generate_parameter_combinations: a new SimulationParameters
\* from six fields of the base (the wavelength is the default again), then
\* setattr for each swept name, which runs no validation
GenerateParameterCombinations(base, sweep) ==
    LET values == Product([j \in DOMAIN sweep |-> sweep[j].values])
        new_params ==
            [DefaultParameters EXCEPT
                !.num_qubits = base.num_qubits,
                !.channel_length = base.channel_length,
                !.channel_attenuation = base.channel_attenuation,
                !.channel_depolarization = base.channel_depolarization,
                !.photon_source_efficiency = base.photon_source_efficiency,
                !.detector_efficiency = base.detector_efficiency]
    IN [k \in DOMAIN values |->
           [f \in DOMAIN new_params |->
               IF \E j \in DOMAIN sweep : sweep[j].name = f
               THEN values[k][CHOOSE j \in DOMAIN sweep : sweep[j].name = f]
               ELSE new_params[f]]]

SweepIdle ==
    /\ simulation_history = <<>>
    /\ sweep_pc = "none"
    /\ base_parameters = DefaultParameters
    /\ sweep_parameters = <<>>
    /\ param_combinations = <<>>
    /\ sweep_results = <<>>
    /\ history_at_call = <<>>
    /\ last_construction = [called |-> FALSE]

\* QKDSimulator.__init__
InitSweep ==
    /\ simulation_history = <<>>
    /\ sweep_pc = "idle"
    /\ base_parameters = DefaultParameters
    /\ sweep_parameters = <<>>
    /\ param_combinations = <<>>
    /\ sweep_results = <<>>
    /\ history_at_call = <<>>
    /\ last_construction = [called |-> FALSE]

\* SimulationParameters(...): __post_init__ returns the object or raises the
\* ValueError of _validate_parameters
ConstructParameters ==
    /\ sweep_pc = "idle"
    /\ \E a \in ConstructorArguments :
          last_construction' =
             [called |-> TRUE, accepted |-> ValidateParameters(a), parameters |-> a]
    /\ UNCHANGED <<simulation_history, sweep_pc, base_parameters, sweep_parameters,
                   param_combinations, sweep_results, history_at_call>>
    /\ UNCHANGED sweep_frame

\* run_simulation(parameters) on the object constructed last
CallRunSimulation ==
    /\ sweep_pc = "idle"
    /\ last_construction.called
    /\ last_construction.accepted
    /\ Len(simulation_history) < MaxDirectRuns
    /\ simulation_history' =
          Append(simulation_history, RunSimulation(last_construction.parameters))
    /\ UNCHANGED <<sweep_pc, base_parameters, sweep_parameters, param_combinations,
                   sweep_results, history_at_call, last_construction>>
    /\ UNCHANGED sweep_frame

\* run_parameter_sweep lines 381-385: results = [] and the combinations
SweepBegin ==
    /\ sweep_pc = "idle"
    /\ last_construction.called
    /\ last_construction.accepted
    /\ \E sweep \in Sweeps :
          /\ sweep_parameters' = sweep
          /\ param_combinations' =
                GenerateParameterCombinations(last_construction.parameters, sweep)
    /\ base_parameters' = last_construction.parameters
    /\ sweep_results' = <<>>
    /\ history_at_call' = simulation_history
    /\ sweep_pc' = "running"
    /\ UNCHANGED <<simulation_history, last_construction>>
    /\ UNCHANGED sweep_frame

\* run_parameter_sweep lines 387-390: one iteration of the loop
SweepRun ==
    /\ sweep_pc = "running"
    /\ Len(sweep_results) < Len(param_combinations)
    /\ LET result == RunSimulation(param_combinations[Len(sweep_results) + 1])
       IN /\ simulation_history' = Append(simulation_history, result)
          /\ sweep_results' = Append(sweep_results, result)
    /\ UNCHANGED <<sweep_pc, base_parameters, sweep_parameters, param_combinations,
                   history_at_call, last_construction>>
    /\ UNCHANGED sweep_frame

\* run_parameter_sweep line 392: return results
SweepReturn ==
    /\ sweep_pc = "running"
    /\ Len(sweep_results) = Len(param_combinations)
    /\ sweep_pc' = "done"
    /\ UNCHANGED <<simulation_history, base_parameters, sweep_parameters,
                   param_combinations, sweep_results, history_at_call,
                   last_construction>>
    /\ UNCHANGED sweep_frame

NextSweep ==
    \/ ConstructParameters
    \/ CallRunSimulation
    \/ SweepBegin
    \/ SweepRun
    \/ SweepReturn

\* the documented ranges of the seven fields
InDocumentedRanges(p) ==
    /\ p.num_qubits \in 8..10000
    /\ p.channel_length \in 1..3000
    /\ p.channel_attenuation \in 5..100
    /\ p.wavelength \in 800..1600
    /\ p.channel_depolarization \in 0..100
    /\ p.photon_source_efficiency \in 50..95
    /\ p.detector_efficiency \in 10..95

\* C15: a SimulationParameters value with a field outside its documented
\* range is rejected before any simulation starts, whether it is constructed
\* directly or produced by a parameter sweep: every constructed object and
\* every parameters record in simulation_history is within the ranges.
C15_OutOfRangeRejected ==
    /\ (last_construction.called /\ last_construction.accepted)
          => InDocumentedRanges(last_construction.parameters)
    /\ \A k \in DOMAIN param_combinations : InDocumentedRanges(param_combinations[k])
    /\ \A k \in DOMAIN simulation_history :
          InDocumentedRanges(simulation_history[k].parameters)

\* the number of combinations in which the values of the names after the
\* j-th stay the same: the product of the lengths of their value lists
RECURSIVE Stride(_, _)
Stride(sweep, j) ==
    IF j >= Len(sweep) THEN 1
    ELSE Len(sweep[j + 1].values) * Stride(sweep, j + 1)

\* C16: run_parameter_sweep runs one simulation per element of the Cartesian
\* product of the sweep value lists, in product order (the last name varies
\* fastest); it returns that many results and appends exactly those results
\* to simulation_history in the same order, none when a value list is empty.
C16_SweepRunsProductInOrder ==
    /\ sweep_pc \in {"running", "done"} =>
          simulation_history = history_at_call \o sweep_results
    /\ sweep_pc = "done" =>
          /\ Len(sweep_results) = Stride(sweep_parameters, 0)
          /\ \A k \in DOMAIN sweep_results : \A j \in DOMAIN sweep_parameters :
                sweep_results[k].parameters[sweep_parameters[j].name]
                   = sweep_parameters[j].values[
                        (((k - 1) \div Stride(sweep_parameters, j))
                            % Len(sweep_parameters[j].values)) + 1]

\* a finished sweep over two names with two values each, on a simulator that
\* had already run a simulation
C16_Witness ==
    /\ sweep_pc = "done"
    /\ Len(sweep_parameters) = 2
    /\ Len(sweep_results) = 4
    /\ sweep_results[2] # sweep_results[3]
    /\ history_at_call # <<>>
    /\ Len(simulation_history) = Len(history_at_call) + 4

\* C30: each parameter set generated by run_parameter_sweep equals the base
\* parameters in every field that is not swept (the wavelength among them).
C30_UnsweptFieldsFromBase ==
    \A k \in DOMAIN param_combinations :
       \A f \in DOMAIN base_parameters :
          (\A j \in DOMAIN sweep_parameters : sweep_parameters[j].name # f)
             => param_combinations[k][f] = base_parameters[f]

(***************************************************************************)
(* main.py: the asynchronous endpoint run_bb84_simulation_async, its        *)
(* background coroutine run_simulation_background and the endpoint         *)
(* clear_simulation_history, on one asyncio event loop.  The coroutines    *)
(* interleave at their await points; loop_time counts half seconds, the    *)
(* length of each asyncio.sleep.                                           *)
(***************************************************************************)
MaxSubmissions == 2

\* the last time, in half seconds, at which a request is explored
MaxLoopTime == 2

\* the phases run_simulation_background walks through (lines 168-177)
Phases ==
    <<"initialization", "quantum_transmission", "basis_announcement", "sifting",
      "error_estimation", "reconciliation", "privacy_amplification", "completed">>

\* the SimulationParameters the requests explored are turned into
JobParameters ==
    {DefaultParameters, [DefaultParameters EXCEPT !.num_qubits = 100]}

\* run_bb84_simulation_async line 131:
\* f"qkd_sim_{int(loop.time())}_{hash(str(params))}".  Equal parameters have
\* equal hashes; the two parameter sets explored have different ones.
SimulationId(time, params) ==
    [second |-> time \div 2, hash |-> params.num_qubits]

\* no request has been made
JobsIdle ==
    /\ background_tasks = <<>>
    /\ loop_time = 0
    /\ jobs = <<>>

\* time passes on the event loop: up to the last request explored, and as
\* long as a coroutine sleeps
LoopTick ==
    /\ \/ loop_time < MaxLoopTime
       \/ \E i \in DOMAIN jobs : jobs[i].pc = "sleep" /\ jobs[i].wake_at > loop_time
    /\ loop_time' = loop_time + 1
    /\ UNCHANGED <<background_tasks, jobs>>
    /\ UNCHANGED sweep_vars
    /\ UNCHANGED jobs_frame

\* POST /simulate/bb84/async (lines 105-153): the entry is written under the
\* simulation id and the background coroutine is scheduled
SubmitAsync ==
    /\ Len(jobs) < MaxSubmissions
    /\ loop_time <= MaxLoopTime
    /\ \E params \in JobParameters :
          LET simulation_id == SimulationId(loop_time, params)
          IN /\ background_tasks' =
                   Put(background_tasks, simulation_id,
                        [status |-> "running", parameters |-> params,
                         start_time |-> loop_time, current_phase |-> "none",
                         result |-> [returned |-> FALSE], error |-> FALSE,
                         end_time |-> NoResult])
             /\ jobs' = Append(jobs, [simulation_id |-> simulation_id,
                                      params |-> params, pc |-> "start",
                                      phase |-> 0, wake_at |-> 0])
    /\ UNCHANGED loop_time
    /\ UNCHANGED sweep_vars
    /\ UNCHANGED jobs_frame

\* a coroutine whose subscript background_tasks[simulation_id] raised KeyError:
\* the except clause subscripts the table again (line 204), so the second
\* KeyError leaves the coroutine and the table is not written
JobCrashed(i) == [jobs EXCEPT ![i].pc = "crashed"]

\* run_simulation_background lines 158-165, up to the first sleep
JobStart(i) ==
    /\ i \in DOMAIN jobs
    /\ jobs[i].pc = "start"
    /\ IF jobs[i].simulation_id \in DOMAIN background_tasks
       THEN /\ background_tasks' =
                  [background_tasks EXCEPT ![jobs[i].simulation_id].status = "running"]
            /\ jobs' = [jobs EXCEPT ![i].pc = "sleep", ![i].wake_at = loop_time + 1]
       ELSE /\ background_tasks' = background_tasks
            /\ jobs' = JobCrashed(i)
    /\ UNCHANGED loop_time
    /\ UNCHANGED sweep_vars
    /\ UNCHANGED jobs_frame

\* run_simulation_background lines 178-187: one pass of the loop over the
\* phases, after its sleep of half a second
JobPhase(i) ==
    /\ i \in DOMAIN jobs
    /\ jobs[i].pc = "sleep"
    /\ loop_time >= jobs[i].wake_at
    /\ IF jobs[i].simulation_id \in DOMAIN background_tasks
       THEN /\ background_tasks' =
                  [background_tasks EXCEPT
                      ![jobs[i].simulation_id].current_phase = Phases[jobs[i].phase + 1]]
            /\ jobs' = [jobs EXCEPT
                          ![i].phase = @ + 1,
                          ![i].pc = IF jobs[i].phase + 1 < Len(Phases)
                                    THEN "sleep" ELSE "run",
                          ![i].wake_at = loop_time + 1]
       ELSE /\ background_tasks' = background_tasks
            /\ jobs' = JobCrashed(i)
    /\ UNCHANGED loop_time
    /\ UNCHANGED sweep_vars
    /\ UNCHANGED jobs_frame

\* run_simulation_background lines 189-208: run_simulation returns (it has
\* appended its result to simulation_history) or raises, and the entry is
\* updated
JobRun(i) ==
    /\ i \in DOMAIN jobs
    /\ jobs[i].pc = "run"
    /\ \E raised \in BOOLEAN :
          LET result == RunSimulation(jobs[i].params)
          IN /\ simulation_history' =
                   IF raised THEN simulation_history
                   ELSE Append(simulation_history, result)
             /\ IF jobs[i].simulation_id \in DOMAIN background_tasks
                THEN /\ background_tasks' =
                           [background_tasks EXCEPT
                               ![jobs[i].simulation_id].status =
                                   IF raised THEN "failed" ELSE "completed",
                               ![jobs[i].simulation_id].result =
                                   IF raised THEN @ ELSE result,
                               ![jobs[i].simulation_id].error =
                                   IF raised THEN TRUE ELSE @,
                               ![jobs[i].simulation_id].end_time = loop_time]
                     /\ jobs' = [jobs EXCEPT ![i].pc = "done"]
                ELSE /\ background_tasks' = background_tasks
                     /\ jobs' = JobCrashed(i)
    /\ UNCHANGED loop_time
    /\ UNCHANGED <<sweep_pc, base_parameters, sweep_parameters, param_combinations,
                   sweep_results, history_at_call, last_construction>>
    /\ UNCHANGED jobs_frame

\* DELETE /simulator/clear-history (lines 479-487): simulator.clear_history()
\* and background_tasks.clear()
ClearSimulationHistory ==
    /\ simulation_history' = <<>>
    /\ background_tasks' = <<>>
    /\ UNCHANGED <<loop_time, jobs>>
    /\ UNCHANGED <<sweep_pc, base_parameters, sweep_parameters, param_combinations,
                   sweep_results, history_at_call, last_construction>>
    /\ UNCHANGED jobs_frame

\* the steps of the coroutine of submission i
JobStep(i) ==
    \/ JobStart(i)
    \/ JobPhase(i)
    \/ JobRun(i)

NextJobs ==
    \/ LoopTick
    \/ SubmitAsync
    \/ \E i \in 1..MaxSubmissions : JobStart(i)
    \/ \E i \in 1..MaxSubmissions : JobPhase(i)
    \/ \E i \in 1..MaxSubmissions : JobRun(i)
    \/ ClearSimulationHistory

\* the event loop resumes every coroutine that is ready, and its clock runs
FairJobs ==
    /\ WF_vars(LoopTick)
    /\ \A i \in 1..MaxSubmissions : WF_vars(JobStep(i))

FinalStatus == {"completed", "failed"}

\* C28: every simulation submitted through the asynchronous endpoint is
\* entered in the job table with status "running"; its entry eventually has
\* status "completed" (with a result, written as a record other than
\* [returned |-> FALSE]) or "failed" (with an error); and an
\* entry with one of these statuses never changes afterwards, whatever other
\* requests (a clear-history, a second submission with the same parameters)
\* are interleaved.
C28_JobsReachFinalStatus ==
    /\ [][Len(jobs') > Len(jobs) =>
            LET id == jobs'[Len(jobs')].simulation_id
            IN /\ id \in DOMAIN background_tasks'
               /\ background_tasks'[id].status = "running"]_vars
    /\ \A i \in 1..MaxSubmissions :
          (Len(jobs) >= i) ~>
              (/\ Len(jobs) >= i
               /\ jobs[i].simulation_id \in DOMAIN background_tasks
               /\ LET entry == background_tasks[jobs[i].simulation_id]
                  IN \/ entry.status = "completed" /\ entry.result # [returned |-> FALSE]
                     \/ entry.status = "failed" /\ entry.error)
    /\ [][\A id \in DOMAIN background_tasks :
            background_tasks[id].status \in FinalStatus =>
                /\ id \in DOMAIN background_tasks'
                /\ background_tasks'[id] = background_tasks[id]]_vars

(***************************************************************************)
(* Specifications: one per component, each leaving the others idle.        *)
(***************************************************************************)
\* BB84Protocol constructed, nothing else in use
InitSpecBB84 ==
    /\ InitBB84
    /\ CascadeIdle
    /\ AesIdle
    /\ ServiceIdle
    /\ SimIdle
    /\ DetectorIdle
    /\ SweepIdle
    /\ JobsIdle

SpecBB84 == InitSpecBB84 /\ [][NextBB84]_vars

\* CascadeProtocol constructed, nothing else in use
InitSpecCascade ==
    /\ InitCascade
    /\ BB84Idle
    /\ cfg = IdealConfig
    /\ pc = "idle"
    /\ AesIdle
    /\ ServiceIdle
    /\ SimIdle
    /\ DetectorIdle
    /\ SweepIdle
    /\ JobsIdle

SpecCascade == InitSpecCascade /\ [][NextCascade]_vars

\* a QKDAESIntegration constructed, nothing else in use
InitSpecAES ==
    /\ InitAES
    /\ BB84Idle
    /\ cfg = IdealConfig
    /\ pc = "idle"
    /\ CascadeIdle
    /\ ServiceIdle
    /\ SimIdle
    /\ DetectorIdle
    /\ SweepIdle
    /\ JobsIdle

SpecAES == InitSpecAES /\ [][NextAES]_vars

\* a QKDSimulator and a SecureMessagingService constructed
InitSpecService ==
    /\ ServiceIdle
    /\ BB84Idle
    /\ cfg = IdealConfig
    /\ pc = "idle"
    /\ CascadeIdle
    /\ AesIdle
    /\ SimIdle
    /\ DetectorIdle
    /\ SweepIdle
    /\ JobsIdle

SpecCache == InitSpecService /\ [][NextCache]_vars

SpecMessaging == InitSpecService /\ [][NextMessaging]_vars

\* a QKDSimulator constructed and run_simulation called on it
InitSpecSim ==
    /\ InitSim
    /\ BB84Idle
    /\ cfg = IdealConfig
    /\ pc = "idle"
    /\ CascadeIdle
    /\ AesIdle
    /\ ServiceIdle
    /\ DetectorIdle
    /\ SweepIdle
    /\ JobsIdle

SpecSim == InitSpecSim /\ [][NextSim]_vars

\* a QuantumDetector constructed and used, nothing else in use
InitSpecDetector ==
    /\ InitDetector
    /\ pc = "idle"
    /\ bases = <<>>
    /\ bit_values = <<>>
    /\ transmitted_qubits = <<>>
    /\ measurement_bases = <<>>
    /\ measurement_results = <<>>
    /\ detection_results = <<>>
    /\ detection_info = <<>>
    /\ protocol_phases = <<>>
    /\ bb84_result = [returned |-> FALSE]
    /\ CascadeIdle
    /\ AesIdle
    /\ ServiceIdle
    /\ SimIdle
    /\ SweepIdle
    /\ JobsIdle

SpecDetector == InitSpecDetector /\ [][NextDetector]_vars

\* a QKDSimulator constructed; parameters are constructed, simulations and
\* one parameter sweep are run on it
InitSpecSweep ==
    /\ InitSweep
    /\ BB84Idle
    /\ cfg = IdealConfig
    /\ pc = "idle"
    /\ CascadeIdle
    /\ AesIdle
    /\ ServiceIdle
    /\ SimIdle
    /\ DetectorIdle
    /\ JobsIdle

SpecSweep == InitSpecSweep /\ [][NextSweep]_vars

\* the server of main.py has started, with an empty job table and a
\* simulator without history; asynchronous submissions, their background
\* coroutines and clear-history requests follow
InitSpecJobs ==
    /\ JobsIdle
    /\ InitSweep
    /\ BB84Idle
    /\ cfg = IdealConfig
    /\ pc = "idle"
    /\ CascadeIdle
    /\ AesIdle
    /\ ServiceIdle
    /\ SimIdle
    /\ DetectorIdle

SpecJobs == InitSpecJobs /\ [][NextJobs]_vars

\* with the scheduling of the event loop
FairSpecJobs == SpecJobs /\ FairJobs

====
